---------------------------- MODULE Spec2Model ----------------------------
(***************************************************************************)
(* Content extraction engine of open-news-insights: TextExtractor          *)
(* (src/scraper/extractor.py) and HTMLParser (src/scraper/parser.py).      *)
(*                                                                         *)
(* Representation.  Attribute values (class, id, style) are sequences of   *)
(* one-character strings, so that re.search with a literal pattern is a    *)
(* substring test.  Text is a sequence of tokens: a token is a word of the *)
(* vocabulary Vocab or one of the whitespace tokens NL ("\n") and PARA     *)
(* ("\n\n").  A parsed document (BeautifulSoup tree) is a sequence of      *)
(* nodes in document order; node.parent is the index of the parent, 0 for  *)
(* the BeautifulSoup root object.  tag.extract() adds the node to the set  *)
(* of detached nodes.  Confidence scores are in tenths.                    *)
(***************************************************************************)
EXTENDS Integers, Sequences, FiniteSets, TLC

\* ------------------------------------------------------------------ bounds
\* Largest number of boilerplate blocks put in front of a document's content.
MaxBoilerplate == 1

\* Largest number of extract_content calls made on one TextExtractor.
MaxCalls == 2

\* ------------------------------------------------------- sequence helpers
RECURSIVE SumSeq(_)
SumSeq(s) == IF s = <<>> THEN 0 ELSE Head(s) + SumSeq(Tail(s))

RECURSIVE Flatten(_)
Flatten(ss) == IF ss = <<>> THEN <<>> ELSE Head(ss) \o Flatten(Tail(ss))

Indices(s) == [i \in 1..Len(s) |-> i]

\* text in pattern, for sequences (Python's `in` on str, re.search of a literal)
Contains(text, pat) ==
    \E i \in 1..(Len(text) - Len(pat) + 1) : SubSeq(text, i, i + Len(pat) - 1) = pat

Rep(w, n) == [i \in 1..n |-> w]

\* --------------------------------------------------------------- patterns
\* extractor.py:65-69
BOILERPLATE_TAGS ==
    {"nav", "header", "footer", "aside", "menu", "menuitem",
     "script", "style", "noscript", "iframe", "embed", "object",
     "form", "input", "button", "select", "textarea", "label"}

\* extractor.py:72-84
BOILERPLATE_PATTERNS ==
    << <<"n", "a", "v">>, <<"n", "a", "v", "i", "g", "a", "t", "i", "o", "n">>, <<"m", "e", "n", "u">>, <<"s", "i", "d", "e", "b", "a", "r">>, <<"a", "s", "i", "d", "e">>,
       <<"h", "e", "a", "d", "e", "r">>, <<"f", "o", "o", "t", "e", "r">>, <<"b", "a", "n", "n", "e", "r">>, <<"t", "o", "o", "l", "b", "a", "r">>,
       <<"a", "d">>, <<"a", "d", "v", "e", "r", "t", "i", "s", "e", "m", "e", "n", "t">>, <<"p", "r", "o", "m", "o">>, <<"s", "p", "o", "n", "s", "o", "r", "e", "d">>,
       <<"s", "o", "c", "i", "a", "l">>, <<"s", "h", "a", "r", "e">>, <<"s", "h", "a", "r", "i", "n", "g">>, <<"f", "o", "l", "l", "o", "w">>,
       <<"c", "o", "m", "m", "e", "n", "t">>, <<"d", "i", "s", "c", "u", "s", "s", "i", "o", "n">>, <<"f", "e", "e", "d", "b", "a", "c", "k">>,
       <<"r", "e", "l", "a", "t", "e", "d">>, <<"r", "e", "c", "o", "m", "m", "e", "n", "d">>, <<"s", "u", "g", "g", "e", "s", "t", "i", "o", "n">>,
       <<"w", "i", "d", "g", "e", "t">>, <<"p", "l", "u", "g", "i", "n">>, <<"e", "m", "b", "e", "d">>,
       <<"b", "r", "e", "a", "d", "c", "r", "u", "m", "b">>, <<"p", "a", "g", "i", "n", "a", "t", "i", "o", "n">>, <<"p", "a", "g", "e", "r">>,
       <<"s", "e", "a", "r", "c", "h">>, <<"f", "i", "l", "t", "e", "r">>, <<"s", "o", "r", "t">>,
       <<"c", "o", "o", "k", "i", "e">>, <<"g", "d", "p", "r">>, <<"p", "r", "i", "v", "a", "c", "y">>,
       <<"n", "e", "w", "s", "l", "e", "t", "t", "e", "r">>, <<"s", "u", "b", "s", "c", "r", "i", "b", "e">>, <<"s", "i", "g", "n", "u", "p">> >>

\* extractor.py:87-90
CONTENT_PATTERNS ==
    << <<"a", "r", "t", "i", "c", "l", "e">>, <<"c", "o", "n", "t", "e", "n", "t">>, <<"m", "a", "i", "n">>, <<"s", "t", "o", "r", "y">>, <<"p", "o", "s", "t">>,
       <<"b", "o", "d", "y">>, <<"t", "e", "x", "t">>, <<"p", "a", "r", "a", "g", "r", "a", "p", "h">>, <<"s", "e", "c", "t", "i", "o", "n">> >>

\* ------------------------------------------------------------- vocabulary
NL   == "\\n"
PARA == "\\n\\n"
Whitespace == {NL, PARA}

\* The words of the vocabulary, spelled out.
Vocabulary ==
    {"word", "word.", "a", "a.", "Menu", "Copyright", "Buy", "now",
     "Site", "nav", "Hidden", "Promo", "Related", "Title", "js",
     "Widget", "Remark", "Advertisement", "By", "Read", "more", "Share",
     "on", "pneumonoultramicro", "Jane", "Doe", "today", "2024-01-15",
     "January", "15,", "2024", "Sponsored"}

Spelling ==
    [w \in Vocabulary |->
       CASE w = "word" -> <<"w", "o", "r", "d">>
         [] w = "word." -> <<"w", "o", "r", "d", ".">>
         [] w = "a" -> <<"a">>
         [] w = "a." -> <<"a", ".">>
         [] w = "Menu" -> <<"M", "e", "n", "u">>
         [] w = "Copyright" -> <<"C", "o", "p", "y", "r", "i", "g", "h", "t">>
         [] w = "Buy" -> <<"B", "u", "y">>
         [] w = "now" -> <<"n", "o", "w">>
         [] w = "Site" -> <<"S", "i", "t", "e">>
         [] w = "nav" -> <<"n", "a", "v">>
         [] w = "Hidden" -> <<"H", "i", "d", "d", "e", "n">>
         [] w = "Promo" -> <<"P", "r", "o", "m", "o">>
         [] w = "Related" -> <<"R", "e", "l", "a", "t", "e", "d">>
         [] w = "Title" -> <<"T", "i", "t", "l", "e">>
         [] w = "js" -> <<"j", "s">>
         [] w = "Widget" -> <<"W", "i", "d", "g", "e", "t">>
         [] w = "Remark" -> <<"R", "e", "m", "a", "r", "k">>
         [] w = "Advertisement" -> <<"A", "d", "v", "e", "r", "t", "i", "s", "e", "m", "e", "n", "t">>
         [] w = "By" -> <<"B", "y">>
         [] w = "Read" -> <<"R", "e", "a", "d">>
         [] w = "more" -> <<"m", "o", "r", "e">>
         [] w = "Share" -> <<"S", "h", "a", "r", "e">>
         [] w = "on" -> <<"o", "n">>
         [] w = "pneumonoultramicro" -> <<"p", "n", "e", "u", "m", "o", "n", "o", "u", "l", "t", "r", "a", "m", "i", "c", "r", "o">>
         [] w = "Jane" -> <<"J", "a", "n", "e">>
         [] w = "Doe" -> <<"D", "o", "e">>
         [] w = "today" -> <<"t", "o", "d", "a", "y">>
         [] w = "2024-01-15" -> <<"2", "0", "2", "4", "-", "0", "1", "-", "1", "5">>
         [] w = "January" -> <<"J", "a", "n", "u", "a", "r", "y">>
         [] w = "15," -> <<"1", "5", ",">>
         [] w = "2024" -> <<"2", "0", "2", "4">>
         [] w = "Sponsored" -> <<"S", "p", "o", "n", "s", "o", "r", "e", "d">>]

\* len: number of characters; term: the word ends with a run of . ! ?
Vocab ==
    [w \in Vocabulary |->
       [len |-> Len(Spelling[w]),
        term |-> Spelling[w][Len(Spelling[w])] \in {".", "!", "?"}]]

\* a sentence of n words, closed by a full stop
Sent(n) == Rep("word", n - 1) \o <<"word.">>

\* ------------------------------------------------------------ document tree
\* An attribute that may be absent is <<>> when absent and <<value>> when
\* present, so that element.get(name) distinguishes None from "".
Absent == <<>>
Attr(v) == <<v>>

\* bs4 Tag; cls is the list of class tokens
TagNode(name, parent, cls, id, style, data_ad, data_widget) ==
    [kind |-> "tag", name |-> name, parent |-> parent, cls |-> cls, id |-> id,
     style |-> style, data_ad |-> data_ad, data_widget |-> data_widget,
     datetime |-> Absent, gu_name |-> Absent, rel |-> Absent, words |-> <<>>]

PlainTag(name, parent) == TagNode(name, parent, <<>>, <<>>, <<>>, Absent, Absent)

ClassTag(name, parent, c) == TagNode(name, parent, <<c>>, <<>>, <<>>, Absent, Absent)

\* bs4 NavigableString
TextNode(parent, words) ==
    [kind |-> "text", name |-> "", parent |-> parent, cls |-> <<>>, id |-> <<>>,
     style |-> <<>>, data_ad |-> Absent, data_widget |-> Absent,
     datetime |-> Absent, gu_name |-> Absent, rel |-> Absent, words |-> words]

\* bs4 Comment
CommentNode(parent, words) ==
    [kind |-> "comment", name |-> "", parent |-> parent, cls |-> <<>>, id |-> <<>>,
     style |-> <<>>, data_ad |-> Absent, data_widget |-> Absent,
     datetime |-> Absent, gu_name |-> Absent, rel |-> Absent, words |-> words]

\* <p>text</p> under `parent`, as two nodes; the text node follows its tag
Para(parent, self, words) == <<PlainTag("p", parent), TextNode(self, words)>>

\* Five paragraphs of 12 words in two sentences each, children of node `parent`
\* of the block, the first paragraph being node `first` of the block.
FiveParas(parent, first) ==
    Flatten([k \in 1..5 |-> Para(parent, first + 2 * (k - 1), Sent(6) \o Sent(6))])

\* Blocks of markup a document is made of.  Inside a block, parent 0 is the
\* enclosing <body> and parent k the k-th node of the block.
\* Blocks that hold only boilerplate:
BoilerplateBlocks ==
    {"nav", "ad_div", "marked_divs", "data_ad_empty", "comment_script"}

\* Whole pages, for HTMLParser:
PageBlocks == {"guardian_page", "toi_page", "plain_page"}

\* Whole documents written without <body> or any other element:
BareBlocks == {"bare_comment", "bare_text"}

\* Blocks that hold the text of the page ("none": no such block):
ContentBlocks ==
    {"none", "article5", "c10_document", "content_div", "short_p", "short_div",
     "short_article", "body_text", "div_nopunct", "article_nested", "gibberish",
     "article_marked", "article4", "malformed", "c11_document", "div_article"}

Block(b) ==
    CASE b = "nav"     -> <<PlainTag("nav", 0), TextNode(1, <<"Site", "nav">>)>>
      [] b = "ad_div"  -> <<ClassTag("div", 0, <<"a", "d", "v", "e", "r", "t", "i", "s", "e", "m", "e", "n", "t">>),
                            TextNode(1, <<"Buy", "now">>)>>
      [] b = "marked_divs" ->
            <<TagNode("div", 0, <<>>, <<>>, <<"D", "i", "s", "p", "l", "a", "y", ":", " ", "N", "o", "n", "e">>, Absent, Absent),
              TextNode(1, <<"Hidden">>),
              TagNode("div", 0, <<>>, <<>>, <<>>, Absent, Attr(<<"1">>)),
              TextNode(3, <<"Widget">>)>>
      [] b = "data_ad_empty" ->
            <<TagNode("div", 0, <<>>, <<>>, <<>>, Attr(<<>>), Absent),
              TextNode(1, <<"Promo">>)>>
      [] b = "comment_script" ->
            <<CommentNode(0, <<"Remark">>),
              PlainTag("script", 0), TextNode(2, <<"js">>)>>
      [] b = "none" -> <<>>
      [] b = "article5" -> <<PlainTag("article", 0)>> \o FiveParas(1, 2)
      \* the document of the end-to-end example
      [] b = "c10_document" ->
            <<PlainTag("nav", 0), TextNode(1, <<"Menu">>),
              PlainTag("article", 0),
              PlainTag("h1", 3), TextNode(4, Rep("Title", 5))>>
            \o Para(3, 6, Sent(4) \o Sent(3))
            \o Para(3, 8, Sent(11))
            \o Para(3, 10, Sent(9))
            \o <<PlainTag("footer", 0), TextNode(12, <<"Copyright">>)>>
      \* the document of test_site_specific_extraction
      [] b = "content_div" ->
            <<ClassTag("div", 0, <<"c", "o", "n", "t", "e", "n", "t">>),
              ClassTag("h1", 1, <<"t", "i", "t", "l", "e">>), TextNode(2, Rep("Title", 3)),
              ClassTag("div", 1, <<"a", "r", "t", "i", "c", "l", "e", "-", "b", "o", "d", "y">>)>>
            \o FiveParas(4, 5)
            \o <<ClassTag("div", 0, <<"s", "i", "d", "e", "b", "a", "r">>), TextNode(15, <<"Related">>)>>
      [] b = "short_p" -> Para(0, 1, Sent(10))
      [] b = "short_div" -> <<PlainTag("div", 0), TextNode(1, Sent(10))>>
      [] b = "short_article" -> <<PlainTag("article", 0), TextNode(1, Sent(10))>>
      [] b = "body_text" -> <<TextNode(0, Sent(8))>>
      [] b = "div_nopunct" -> <<PlainTag("div", 0), TextNode(1, Rep("word", 60))>>
      [] b = "article_nested" ->
            <<PlainTag("article", 0),
              ClassTag("div", 1, <<"s", "i", "d", "e", "b", "a", "r">>), TextNode(2, <<"Related">>),
              TagNode("div", 2, <<>>, <<"n", "a", "v", "-", "m", "a", "i", "n">>, <<>>, Absent, Absent),
              TextNode(4, <<"Menu">>)>>
            \o FiveParas(1, 6)
      \* <article><div data-ad>Promo</div><p>...</p> x 5</article>
      [] b = "article_marked" ->
            <<PlainTag("article", 0),
              TagNode("div", 1, <<>>, <<>>, <<>>, Attr(<<>>), Absent),
              TextNode(2, <<"Promo">>)>>
            \o FiveParas(1, 4)
      \* a headline and four paragraphs: 53 words, 48 of them in paragraphs
      [] b = "article4" ->
            <<PlainTag("article", 0),
              PlainTag("h1", 1), TextNode(2, Rep("Title", 5))>>
            \o Flatten([k \in 1..4 |->
                   Para(1, 4 + 2 * (k - 1), Sent(6) \o Sent(6))])
      \* the document of test_malformed_html_handling: unclosed p, div, script
      [] b = "malformed" ->
            <<PlainTag("p", 0), TextNode(1, Rep("word", 2)),
              PlainTag("div", 1), TextNode(3, Rep("word", 3)),
              PlainTag("p", 3), TextNode(5, Rep("word", 2)),
              PlainTag("script", 3), TextNode(7, <<"js">>)>>
      \* a Guardian article page
      [] b = "guardian_page" ->
            <<PlainTag("article", 0),
              [PlainTag("h1", 1) EXCEPT !.gu_name = Attr(<<"h", "e", "a", "d", "l", "i", "n", "e">>)],
              TextNode(2, Rep("Title", 3)),
              PlainTag("address", 1),
              [PlainTag("a", 4) EXCEPT !.rel = Attr(<<"a", "u", "t", "h", "o", "r">>)],
              TextNode(5, <<"Jane", "Doe">>),
              [PlainTag("time", 1) EXCEPT !.datetime = Attr(<<"2", "0", "2", "4", "-", "0", "1", "-", "1", "5">>)],
              TextNode(7, <<"today">>),
              [PlainTag("div", 1) EXCEPT !.gu_name = Attr(<<"b", "o", "d", "y">>)]>>
            \o FiveParas(9, 10)
      \* a Times of India article page
      [] b = "toi_page" ->
            <<ClassTag("h1", 0, <<"H", "N", "M", "D", "R">>), TextNode(1, Rep("Title", 4)),
              ClassTag("div", 0, <<"b", "y", "l", "i", "n", "e">>),
              TextNode(3, <<"Sponsored", "By", "Jane">>),
              ClassTag("span", 0, <<"p", "u", "b", "l", "i", "s", "h", "-", "d", "a", "t", "e">>),
              TextNode(5, <<"January", "15,", "2024">>),
              ClassTag("div", 0, <<"_", "s", "3", "0", "J">>)>>
            \o FiveParas(7, 8)
      \* an article page of an unregistered site
      [] b = "plain_page" ->
            <<PlainTag("article", 0),
              PlainTag("h1", 1), TextNode(2, Rep("Title", 2)),
              ClassTag("div", 1, <<"b", "y", "l", "i", "n", "e">>),
              TextNode(4, <<"By", NL>>),
              PlainTag("b", 4), TextNode(6, <<"Doe">>),
              PlainTag("time", 1), TextNode(8, <<"today">>)>>
            \o FiveParas(1, 10)
      \* one article of five distinct 12-word paragraphs between a nav, a
      \* footer and an advertisement
      [] b = "c11_document" ->
            <<PlainTag("nav", 0), TextNode(1, <<"Menu">>),
              PlainTag("article", 0)>>
            \o Para(3, 4, Sent(6) \o Sent(6))
            \o Para(3, 6, Sent(5) \o Sent(7))
            \o Para(3, 8, Sent(7) \o Sent(5))
            \o Para(3, 10, Sent(4) \o Sent(8))
            \o Para(3, 12, Sent(8) \o Sent(4))
            \o <<PlainTag("footer", 0), TextNode(14, <<"Copyright">>),
                 ClassTag("div", 0, <<"a", "d", "v", "e", "r", "t", "i", "s", "e", "m", "e", "n", "t">>), TextNode(16, <<"Buy", "now">>)>>
      \* parts of an article page: a headline as the Guardian marks it, a
      \* plain headline, a Guardian article body of 60 and of 120 words, an
      \* author link, a byline, a date
      [] b = "h1_headline" ->
            <<[PlainTag("h1", 0) EXCEPT !.gu_name = Attr(<<"h", "e", "a", "d", "l", "i", "n", "e">>)],
              TextNode(1, Rep("Title", 3))>>
      [] b = "h1_plain" -> <<PlainTag("h1", 0), TextNode(1, Rep("Title", 3))>>
      [] b = "gu_body5" ->
            <<[PlainTag("div", 0) EXCEPT !.gu_name = Attr(<<"b", "o", "d", "y">>)]>>
            \o FiveParas(1, 2)
      [] b = "gu_body10" ->
            <<[PlainTag("div", 0) EXCEPT !.gu_name = Attr(<<"b", "o", "d", "y">>)]>>
            \o FiveParas(1, 2) \o FiveParas(1, 12)
      [] b = "gu_author" ->
            <<[PlainTag("a", 0) EXCEPT !.rel = Attr(<<"a", "u", "t", "h", "o", "r">>)],
              TextNode(1, <<"Jane", "Doe">>)>>
      [] b = "byline_div" ->
            <<ClassTag("div", 0, <<"b", "y", "l", "i", "n", "e">>), TextNode(1, <<"Jane", "Doe">>)>>
      [] b = "time_datetime" ->
            <<[PlainTag("time", 0) EXCEPT !.datetime = Attr(<<"2", "0", "2", "4", "-", "0", "1", "-", "1", "5">>)],
              TextNode(1, <<"today">>)>>
      \* date elements: a text that is no date, a text that is one, a datetime
      \* attribute that is no date beside a text that is one, an empty element
      [] b = "time_today" -> <<PlainTag("time", 0), TextNode(1, <<"today">>)>>
      [] b = "time_text" -> <<PlainTag("time", 0), TextNode(1, <<"2024-01-15">>)>>
      [] b = "time_bad_attr" ->
            <<[PlainTag("time", 0) EXCEPT !.datetime = Attr(<<"t", "o", "d", "a", "y">>)],
              TextNode(1, <<"2024-01-15">>)>>
      [] b = "time_empty" -> <<PlainTag("time", 0)>>
      \* documents written without any element
      [] b = "bare_comment" -> <<CommentNode(0, <<"Remark">>)>>
      [] b = "bare_text" -> <<TextNode(0, Rep("word", 3))>>
      \* <div><p>...</p> x 5</div><article><p>...</p> x 5</article>: two
      \* elements of the same score, the div first in the document
      [] b = "div_article" ->
            <<PlainTag("div", 0)>> \o FiveParas(1, 2)
            \o <<PlainTag("article", 0)>> \o FiveParas(12, 13)
      [] b = "gibberish" ->
            <<PlainTag("article", 0)>>
            \o Flatten([k \in 1..5 |->
                   Para(1, 2 * k, Rep("a", 11) \o <<"a.">>)])

\* The nodes of the blocks b1 b2 ... placed under node 1, after `offset` nodes.
RECURSIVE Place(_, _)
Place(blocks, offset) ==
    IF blocks = <<>> THEN <<>>
    ELSE LET nodes == Block(Head(blocks))
             moved == [k \in 1..Len(nodes) |->
                         [nodes[k] EXCEPT !.parent =
                             IF @ = 0 THEN 1 ELSE @ + offset]]
         IN moved \o Place(Tail(blocks), offset + Len(nodes))

\* the same markup inside a <body> element, written or added by the parser
WrappedTree(blocks) == <<PlainTag("body", 0)>> \o Place(blocks, 1)

\* The tree html.parser builds: it adds no element, so a document written
\* without elements has none.
BuildTree(blocks) ==
    IF blocks # <<>> /\ Head(blocks) \in BareBlocks THEN Block(Head(blocks))
    ELSE WrappedTree(blocks)

\* ---------------------------------------------------------- tree operations
\* Walking up from node n reaches `top` (0 is the BeautifulSoup object) without
\* crossing an extracted node: n is `top` or one of its current descendants.
RECURSIVE Attached(_, _, _, _)
Attached(tree, det, n, top) ==
    IF n = top THEN TRUE
    ELSE IF n = 0 \/ n \in det THEN FALSE
    ELSE Attached(tree, det, tree[n].parent, top)

InTree(tree, det, n) == Attached(tree, det, n, 0)

IsDescendant(tree, det, n, e) == n # e /\ Attached(tree, det, n, e)

\* soup.find_all(): every Tag of the tree, in document order
FindAllTags(tree, det) ==
    SelectSeq(Indices(tree),
              LAMBDA i : tree[i].kind = "tag" /\ InTree(tree, det, i))

\* soup.find_all(name)
FindAll(tree, det, name) ==
    SelectSeq(Indices(tree),
              LAMBDA i : tree[i].kind = "tag" /\ tree[i].name = name
                         /\ InTree(tree, det, i))

\* element.find_all(name): the current descendants of e with that tag
FindAllIn(tree, det, e, name) ==
    SelectSeq(Indices(tree),
              LAMBDA i : tree[i].kind = "tag" /\ tree[i].name = name
                         /\ IsDescendant(tree, det, i, e))

\* soup.find_all(string=lambda text: isinstance(text, Comment))
FindComments(tree, det) ==
    SelectSeq(Indices(tree),
              LAMBDA i : tree[i].kind = "comment" /\ InTree(tree, det, i))

\* ' '.join(tokens)
RECURSIVE JoinSpace(_)
JoinSpace(tokens) ==
    IF tokens = <<>> THEN <<>>
    ELSE IF Len(tokens) = 1 THEN tokens[1]
    ELSE tokens[1] \o <<" ">> \o JoinSpace(Tail(tokens))

\* str.replace(' ', '')
RemoveSpaces(s) == SelectSeq(s, LAMBDA c : c # " ")

\* element.get(name): truthiness of the value (None and '' are falsy)
Truthy(attr) == attr # Absent /\ attr[1] # <<>>

\* A removal-log entry "<cause>:<name>" is the pair <<cause, name>>.
Entry(cause, name) == <<cause, name>>

\* State of one sanitizing/filtering pass: the extracted nodes and the log.
\* `faulty` is the set of nodes whose extract() raises.
\* One iteration of `try: x.extract(); log.append(entry) except: pass`.
ExtractLogged(st, n, entry, faulty) ==
    IF n \in faulty THEN st
    ELSE [det |-> st.det \cup {n}, log |-> Append(st.log, entry)]

\* for x in list: try: x.extract(); append(entry(x)) except Exception: debug
RECURSIVE ExtractEach(_, _, _, _, _)
ExtractEach(tree, st, list, cause, faulty) ==
    IF list = <<>> THEN st
    ELSE ExtractEach(tree,
                     ExtractLogged(st, Head(list),
                                   Entry(cause, IF cause = "comment" THEN ""
                                                ELSE tree[Head(list)].name),
                                   faulty),
                     Tail(list), cause, faulty)

\* ------------------------------------------------------------- sanitizing
UpperAlphabet ==
    <<"A", "B", "C", "D", "E", "F", "G", "H", "I", "J", "K", "L", "M",
      "N", "O", "P", "Q", "R", "S", "T", "U", "V", "W", "X", "Y", "Z">>

LowerAlphabet ==
    <<"a", "b", "c", "d", "e", "f", "g", "h", "i", "j", "k", "l", "m",
      "n", "o", "p", "q", "r", "s", "t", "u", "v", "w", "x", "y", "z">>

\* str.lower()
LowerChar(c) ==
    IF \E k \in 1..26 : UpperAlphabet[k] = c
    THEN LowerAlphabet[CHOOSE k \in 1..26 : UpperAlphabet[k] = c]
    ELSE c

Lower(s) == [k \in 1..Len(s) |-> LowerChar(s[k])]

\* ' '.join(classes) + ' ' + element_id, lower-cased
TextToCheck(node) == Lower(JoinSpace(node.cls) \o <<" ">> \o node.id)

\* number of patterns of the list that re.search finds in the text
MatchCount(patterns, text) ==
    Cardinality({k \in 1..Len(patterns) : Contains(text, patterns[k])})

\* TextExtractor._is_boilerplate_element
IsBoilerplateElement(node) ==
    /\ node.kind = "tag"
    /\ \/ MatchCount(BOILERPLATE_PATTERNS, TextToCheck(node)) > 0
       \/ Truthy(node.data_ad) \/ Truthy(node.data_widget)
       \/ /\ node.style # <<>>
          /\ LET style_clean == Lower(RemoveSpaces(node.style))
             IN \/ Contains(style_clean, <<"d", "i", "s", "p", "l", "a", "y", ":", "n", "o", "n", "e">>)
                \/ Contains(style_clean, <<"v", "i", "s", "i", "b", "i", "l", "i", "t", "y", ":", "h", "i", "d", "d", "e", "n">>)

\* TextExtractor._remove_comments_and_scripts
RECURSIVE RemoveScriptStyle(_, _, _, _)
RemoveScriptStyle(tree, st, names, faulty) ==
    IF names = <<>> THEN st
    ELSE RemoveScriptStyle(tree,
             ExtractEach(tree, st, FindAll(tree, st.det, Head(names)),
                         "script_style", faulty),
             Tail(names), faulty)

RemoveCommentsAndScripts(tree, st, faulty) ==
    RemoveScriptStyle(tree,
        ExtractEach(tree, st, FindComments(tree, st.det), "comment", faulty),
        <<"script", "style", "noscript">>, faulty)

\* the first pass stopping after the first element of each tag name
RECURSIVE RemoveByTagFirstOnly(_, _, _, _)
RemoveByTagFirstOnly(tree, st, order, faulty) ==
    IF order = <<>> THEN st
    ELSE RemoveByTagFirstOnly(tree,
             ExtractEach(tree, st,
                         SubSeq(FindAll(tree, st.det, Head(order)), 1, 1),
                         "tag", faulty),
             Tail(order), faulty)

\* First pass of _remove_boilerplate_elements: for tag_name in BOILERPLATE_TAGS.
\* `order` is the order in which the set is iterated.
RECURSIVE RemoveByTag(_, _, _, _)
RemoveByTag(tree, st, order, faulty) ==
    IF order = <<>> THEN st
    ELSE RemoveByTag(tree,
             ExtractEach(tree, st, FindAll(tree, st.det, Head(order)),
                         "tag", faulty),
             Tail(order), faulty)

\* Second pass: the list soup.find_all() is taken once, every element of it
\* is tested, failures of extract() are swallowed.
RECURSIVE RemoveByPattern(_, _, _, _)
RemoveByPattern(tree, st, elements, faulty) ==
    IF elements = <<>> THEN st
    ELSE LET e == Head(elements)
         IN RemoveByPattern(tree,
                IF IsBoilerplateElement(tree[e])
                THEN ExtractLogged(st, e, Entry("pattern", tree[e].name), faulty)
                ELSE st,
                Tail(elements), faulty)

\* Third pass (extractor.py:372-376), outside any try: the first failing
\* extract() ends the function with the exception.
RECURSIVE RemoveByPatternUnguarded(_, _, _, _)
RemoveByPatternUnguarded(tree, st, elements, faulty) ==
    IF elements = <<>> THEN [det |-> st.det, log |-> st.log, raised |-> FALSE]
    ELSE LET e == Head(elements)
         IN IF ~IsBoilerplateElement(tree[e])
            THEN RemoveByPatternUnguarded(tree, st, Tail(elements), faulty)
            ELSE IF e \in faulty
            THEN [det |-> st.det, log |-> st.log, raised |-> TRUE]
            ELSE RemoveByPatternUnguarded(tree,
                     ExtractLogged(st, e, Entry("pattern", tree[e].name), faulty),
                     Tail(elements), faulty)

\* TextExtractor._remove_boilerplate_elements
RemoveBoilerplateElements(tree, st, order, faulty) ==
    LET s1 == RemoveByTag(tree, st, order, faulty)
        s2 == RemoveByPattern(tree, s1, FindAllTags(tree, s1.det), faulty)
    IN RemoveByPatternUnguarded(tree, s2, FindAllTags(tree, s2.det), faulty)

\* ---------------------------------------------------------- text handling
IsWord(t) == t \notin Whitespace

\* str.split(): the whitespace-separated words
Words(content) == SelectSeq(content, IsWord)

\* '\n\n'.join(parts)
RECURSIVE JoinPara(_)
JoinPara(parts) ==
    IF parts = <<>> THEN <<>>
    ELSE IF Len(parts) = 1 THEN parts[1]
    ELSE parts[1] \o <<PARA>> \o JoinPara(Tail(parts))

\* content.split('\n\n')
SplitPara(content, cur) ==
    LET breaks == SelectSeq(Indices(content), LAMBDA i : content[i] = PARA)
        parts == Len(breaks) + 1
    IN [k \in 1..parts |->
          (IF k = 1 THEN cur ELSE <<>>)
          \o SubSeq(content,
                    IF k = 1 THEN 1 ELSE breaks[k - 1] + 1,
                    IF k = parts THEN Len(content) ELSE breaks[k] - 1)]

\* len(re.split(r'[.!?]+', content)): one more than the terminator runs
SentenceSegments(content) ==
    1 + Cardinality({k \in 1..Len(content) :
                        IsWord(content[k]) /\ Vocab[content[k]].term})

\* sum(len(word) for word in words)
TotalWordLength(words) == SumSeq([k \in 1..Len(words) |-> Vocab[words[k]].len])

\* first position where the two-word phrase starts, 0 if it does not occur
PhraseAt(words, w1, w2) ==
    IF \E k \in 1..(Len(words) - 1) : words[k] = w1 /\ words[k + 1] = w2
    THEN CHOOSE k \in 1..(Len(words) - 1) :
            /\ words[k] = w1 /\ words[k + 1] = w2
            /\ \A j \in 1..(k - 1) : ~(words[j] = w1 /\ words[j + 1] = w2)
    ELSE 0

\* r'(<w1> <w2>).*$' replaced by '': the text is cut at the phrase
CutAtPhrase(words, w1, w2) ==
    IF PhraseAt(words, w1, w2) = 0 THEN words
    ELSE SubSeq(words, 1, PhraseAt(words, w1, w2) - 1)

\* _clean_text cutting the text after its first sentence
CleanTextFirstSentence(text) ==
    LET collapsed == Words(text)
        ends == {k \in 1..Len(collapsed) : Vocab[collapsed[k]].term}
    IN IF ends = {} THEN collapsed
       ELSE SubSeq(collapsed, 1, CHOOSE k \in ends : \A j \in ends : k <= j)

\* TextExtractor._clean_text on a token sequence; the result is the text
\* without leading or trailing whitespace, its words separated by one space.
CleanText(text) ==
    IF text = <<>> THEN <<>>
    ELSE LET \* re.sub(r'\s+', ' ', text)
             collapsed   == Words(text)
             leadingWs   == ~IsWord(Head(text))
             \* r'^(Advertisement|Sponsored|Related:|Share:|Follow:|Subscribe:)'
             t1 == IF collapsed # <<>> /\ ~leadingWs
                      /\ Head(collapsed) = "Advertisement"
                   THEN Tail(collapsed) ELSE collapsed
             \* r'(Click here|Read more|Continue reading).*$'
             t2 == CutAtPhrase(t1, "Read", "more")
             \* r'^\s*(By|Author:|Written by)\s+'
             t3 == IF Len(t2) >= 2 /\ Head(t2) = "By" THEN Tail(t2) ELSE t2
             \* r'\s*(Share on|Follow us|Subscribe to).*$'
             t4 == CutAtPhrase(t3, "Share", "on")
         IN t4

\* The descendants loop of _extract_text_from_element: text_parts after the
\* nodes `nodes` of the element have been visited.
RECURSIVE TextParts(_, _, _)
TextParts(tree, nodes, parts) ==
    IF nodes = <<>> THEN parts
    ELSE LET child == tree[Head(nodes)]
             next ==
               IF child.kind = "text"
               THEN IF child.words # <<>> THEN Append(parts, child.words)
                    ELSE parts
               ELSE IF child.kind = "tag" /\ child.name \in {"br", "p", "div"}
               THEN IF parts # <<>> /\ parts[Len(parts)] # <<NL>>
                    THEN Append(parts, <<NL>>) ELSE parts
               ELSE parts
         IN TextParts(tree, Tail(nodes), next)

\* element.descendants
Descendants(tree, det, e) ==
    SelectSeq(Indices(tree), LAMBDA i : IsDescendant(tree, det, i, e))

\* _extract_text_from_element keeping the line breaks it adds for block
\* elements as paragraph breaks
ExtractTextFromElementKeepingBreaks(tree, det, e) ==
    LET Kept(parts) ==
            Flatten([k \in 1..Len(parts) |->
                        IF parts[k] = <<NL>> THEN <<PARA>> ELSE parts[k]])
    IN Kept(TextParts(tree, Descendants(tree, det, e), <<>>))

\* TextExtractor._extract_text_from_element
ExtractTextFromElement(tree, det, e) ==
    CleanText(Flatten(TextParts(tree, Descendants(tree, det, e), <<>>)))

\* ------------------------------------------------------------- CSS selectors
\* A simple selector: tag name ("" for any), class token (<<>> for any),
\* substring of the class attribute for [class*='x'] (<<>> for any), and an
\* attribute test [attr] or [attr='val'] (attr "" for none, val <<>> for any).
Simple(tag, cls, cls_sub, attr, val) ==
    [tag |-> tag, cls |-> cls, cls_sub |-> cls_sub, attr |-> attr, val |-> val]

T(tag)          == Simple(tag, <<>>, <<>>, "", <<>>)
C(cls)          == Simple("", cls, <<>>, "", <<>>)
TC(tag, cls)    == Simple(tag, cls, <<>>, "", <<>>)
CSub(sub)       == Simple("", <<>>, sub, "", <<>>)
TA(tag, attr, val) == Simple(tag, <<>>, <<>>, attr, val)
AnySimple       == Simple("", <<>>, <<>>, "", <<>>)

\* A selector group "a b, c" is a sequence of alternatives; an alternative is
\* a simple selector (desc FALSE) or the descendant selector `anc target`.
Alt(anc, target) == [desc |-> TRUE, anc |-> anc, target |-> target]
One(target)      == [desc |-> FALSE, anc |-> AnySimple, target |-> target]

\* element.get(attr) for the attributes the selectors test
AttrOf(node, attr) ==
    CASE attr = "datetime"     -> node.datetime
      [] attr = "data-gu-name" -> node.gu_name
      [] attr = "rel"          -> node.rel
      [] OTHER                 -> Absent

MatchesSimple(node, s) ==
    /\ node.kind = "tag"
    /\ s.tag = "" \/ node.name = s.tag
    /\ s.cls = <<>> \/ \E k \in 1..Len(node.cls) : node.cls[k] = s.cls
    /\ s.cls_sub = <<>> \/ Contains(JoinSpace(node.cls), s.cls_sub)
    /\ s.attr = "" \/ /\ AttrOf(node, s.attr) # Absent
                      /\ s.val = <<>> \/ AttrOf(node, s.attr)[1] = s.val

\* some proper ancestor of n matches the simple selector
RECURSIVE HasAncestor(_, _, _)
HasAncestor(tree, n, s) ==
    LET p == tree[n].parent
    IN IF p = 0 THEN FALSE
       ELSE MatchesSimple(tree[p], s) \/ HasAncestor(tree, p, s)

\* soup.select(selector): matching elements of the tree in document order
Select(tree, det, selector) ==
    SelectSeq(Indices(tree),
        LAMBDA i : /\ tree[i].kind = "tag" /\ InTree(tree, det, i)
                   /\ \E k \in 1..Len(selector) :
                         /\ MatchesSimple(tree[i], selector[k].target)
                         /\ selector[k].desc =>
                               HasAncestor(tree, i, selector[k].anc))

\* config/sites.py:45  "article p, .content p, .article-body p, .story p"
GENERIC_CONTENT_SELECTOR ==
    <<Alt(T("article"), T("p")), Alt(C(<<"c", "o", "n", "t", "e", "n", "t">>), T("p")),
      Alt(C(<<"a", "r", "t", "i", "c", "l", "e", "-", "b", "o", "d", "y">>), T("p")), Alt(C(<<"s", "t", "o", "r", "y">>), T("p"))>>

\* tests/unit/test_extractor.py:118  ".article-body p"
TEST_CONTENT_SELECTOR == <<Alt(C(<<"a", "r", "t", "i", "c", "l", "e", "-", "b", "o", "d", "y">>), T("p"))>>

\* the site_selectors argument: None, a dict without content_selector, dicts
NoSelectors    == [given |-> FALSE, content_selector |-> <<>>]
TitleOnly      == [given |-> TRUE,  content_selector |-> <<>>]
GenericProfile == [given |-> TRUE,  content_selector |-> GENERIC_CONTENT_SELECTOR]
TestProfile    == [given |-> TRUE,  content_selector |-> TEST_CONTENT_SELECTOR]

SelectorInputs == {NoSelectors, TitleOnly, GenericProfile, TestProfile}

\* ---------------------------------------------------------------- strategies
\* the non-empty texts of the elements, in order
RECURSIVE TextsOf(_, _, _)
TextsOf(tree, det, elements) ==
    IF elements = <<>> THEN <<>>
    ELSE LET text == ExtractTextFromElement(tree, det, Head(elements))
         IN (IF text # <<>> THEN <<text>> ELSE <<>>)
            \o TextsOf(tree, det, Tail(elements))

\* TextExtractor._extract_with_selectors
ExtractWithSelectors(tree, det, selectors) ==
    IF selectors.content_selector # <<>>
    THEN JoinPara(TextsOf(tree, det, Select(tree, det, selectors.content_selector)))
    ELSE <<>>

\* len(element.get_text(strip=True).split()): the stripped strings are joined
\* without a separator, so the last word of a string and the first word of
\* the next count as one word.
StrippedWordCount(tree, det, e) ==
    LET strings == SelectSeq(Descendants(tree, det, e),
                       LAMBDA i : tree[i].kind = "text" /\ tree[i].words # <<>>)
    IN IF strings = <<>> THEN 0
       ELSE SumSeq([k \in 1..Len(strings) |-> Len(tree[strings[k]].words)])
            - (Len(strings) - 1)

\* TextExtractor._score_content_element
ScoreContentElement(tree, det, e) ==
    LET text_to_check == TextToCheck(tree[e])
        word_count == StrippedWordCount(tree, det, e)
        paragraphs == Len(FindAllIn(tree, det, e, "p"))
        links      == Len(FindAllIn(tree, det, e, "a"))
        score ==
            10 * MatchCount(CONTENT_PATTERNS, text_to_check)
            - 5 * MatchCount(BOILERPLATE_PATTERNS, text_to_check)
            + (IF word_count = 0 THEN 0
               ELSE (IF word_count > 100 THEN 20
                     ELSE IF word_count > 50 THEN 10
                     ELSE IF word_count > 20 THEN 5 ELSE 0)
                    + (IF paragraphs > 3 THEN 15
                       ELSE IF paragraphs > 1 THEN 5 ELSE 0))
            - (IF links > 10 THEN 10 ELSE 0)
    IN IF score > 0 THEN score ELSE 0

\* the candidates list of _find_best_content_element, in enumeration order
Candidates(tree, det) ==
    SelectSeq(FindAll(tree, det, "article") \o FindAll(tree, det, "main")
              \o FindAll(tree, det, "section") \o FindAll(tree, det, "div"),
              LAMBDA e : ScoreContentElement(tree, det, e) > 0)

\* _find_best_content_element with a sort that puts the last of the
\* candidates of the largest score first
FindBestContentElementLastSeen(tree, det) ==
    LET c == Candidates(tree, det)
    IN IF c = <<>> THEN 0
       ELSE c[CHOOSE k \in 1..Len(c) :
                 /\ \A j \in 1..Len(c) :
                       ScoreContentElement(tree, det, c[j])
                         <= ScoreContentElement(tree, det, c[k])
                 /\ \A j \in (k + 1)..Len(c) :
                       ScoreContentElement(tree, det, c[j])
                         < ScoreContentElement(tree, det, c[k])]

\* TextExtractor._find_best_content_element; 0 stands for None.  The sort is
\* stable, so the first candidate with the largest score is returned.
FindBestContentElement(tree, det) ==
    LET c == Candidates(tree, det)
    IN IF c = <<>> THEN 0
       ELSE c[CHOOSE k \in 1..Len(c) :
                 /\ \A j \in 1..Len(c) :
                       ScoreContentElement(tree, det, c[j])
                         <= ScoreContentElement(tree, det, c[k])
                 /\ \A j \in 1..(k - 1) :
                       ScoreContentElement(tree, det, c[j])
                         < ScoreContentElement(tree, det, c[k])]

\* TextExtractor._extract_with_readability
ExtractWithReadability(tree, det) ==
    LET best_element == FindBestContentElement(tree, det)
    IN IF best_element # 0 THEN ExtractTextFromElement(tree, det, best_element)
       ELSE <<>>

\* the first element of the list whose text has more than 20 words, as a
\* one-element list of texts
RECURSIVE FirstLongText(_, _, _)
FirstLongText(tree, det, elements) ==
    IF elements = <<>> THEN <<>>
    ELSE LET text == ExtractTextFromElement(tree, det, Head(elements))
         IN IF text # <<>> /\ Len(Words(text)) > 20 THEN <<text>>
            ELSE FirstLongText(tree, det, Tail(elements))

\* _extract_generic_content harvesting paragraphs of more than 8 words
ExtractGenericContentLowThreshold(tree, det) ==
    LET paras == SelectSeq(TextsOf(tree, det, FindAll(tree, det, "p")),
                           LAMBDA text : Len(Words(text)) > 8)
        divs     == FirstLongText(tree, det, FindAll(tree, det, "div"))
        sections == FirstLongText(tree, det, FindAll(tree, det, "section"))
        articles == FirstLongText(tree, det, FindAll(tree, det, "article"))
    IN JoinPara(IF paras # <<>> THEN paras
                ELSE IF divs # <<>> THEN divs
                ELSE IF sections # <<>> THEN sections
                ELSE articles)

\* TextExtractor._extract_generic_content
ExtractGenericContent(tree, det) ==
    LET paras == SelectSeq(TextsOf(tree, det, FindAll(tree, det, "p")),
                           LAMBDA text : Len(Words(text)) > 10)
        divs     == FirstLongText(tree, det, FindAll(tree, det, "div"))
        sections == FirstLongText(tree, det, FindAll(tree, det, "section"))
        articles == FirstLongText(tree, det, FindAll(tree, det, "article"))
    IN JoinPara(IF paras # <<>> THEN paras
                ELSE IF divs # <<>> THEN divs
                ELSE IF sections # <<>> THEN sections
                ELSE articles)

\* _is_good_content refusing a mean word length of exactly 3 or 15
IsGoodContentOpenInterval(content) ==
    LET words == Words(content)
    IN /\ content # <<>>
       /\ Len(words) >= 50
       /\ SentenceSegments(content) >= 3
       /\ TotalWordLength(words) > 3 * Len(words)
       /\ TotalWordLength(words) < 15 * Len(words)

\* ------------------------------------------------- quality gate and scoring
\* TextExtractor._is_good_content
IsGoodContent(content) ==
    LET words == Words(content)
    IN /\ content # <<>>
       /\ Len(words) >= 50
       /\ SentenceSegments(content) >= 3
       /\ TotalWordLength(words) >= 3 * Len(words)
       /\ TotalWordLength(words) <= 15 * Len(words)

\* method_scores with the scores of the last two methods exchanged
MethodScoreExchanged(method) ==
    CASE method = "site_specific"    -> 8
      [] method = "readability"      -> 4
      [] method = "generic_fallback" -> 6
      [] method = "error"            -> 0
      [] OTHER                       -> 3

\* method_scores of _calculate_confidence_score, in tenths
MethodScore(method) ==
    CASE method = "site_specific"    -> 8
      [] method = "readability"      -> 6
      [] method = "generic_fallback" -> 4
      [] method = "error"            -> 0
      [] OTHER                       -> 3

\* the score without the clamp of line 746
CalculateConfidenceScoreUnclamped(content, method) ==
    IF content = <<>> THEN 0
    ELSE LET word_count == Len(Words(content))
         IN MethodScore(method)
            + (IF word_count > 200 THEN 2
               ELSE IF word_count > 100 THEN 1
               ELSE IF word_count < 50 THEN -2 ELSE 0)
            + (IF SentenceSegments(content) > 5 THEN 1 ELSE 0)
            + (IF Len(SplitPara(content, <<>>)) > 2 THEN 1 ELSE 0)

\* TextExtractor._calculate_confidence_score, in tenths
CalculateConfidenceScore(content, method) ==
    IF content = <<>> THEN 0
    ELSE LET word_count == Len(Words(content))
             score ==
                 MethodScore(method)
                 + (IF word_count > 200 THEN 2
                    ELSE IF word_count > 100 THEN 1
                    ELSE IF word_count < 50 THEN -2 ELSE 0)
                 + (IF SentenceSegments(content) > 5 THEN 1 ELSE 0)
                 + (IF Len(SplitPara(content, <<>>)) > 2 THEN 1 ELSE 0)
         IN IF score < 0 THEN 0 ELSE IF score > 10 THEN 10 ELSE score

\* ExtractedContent; error_details is {} when error_type and warning are "".
ExtractedContent(text, words, paragraphs, method, confidence, removed, error, warning) ==
    [clean_text |-> text, word_count |-> words,
     paragraph_count |-> paragraphs, extraction_method |-> method,
     confidence_score |-> confidence, removed_elements |-> removed,
     error_type |-> error, warning |-> warning]

\* an error result built without its error_details
CreateErrorResultWithoutDetails(error_type) ==
    ExtractedContent(<<>>, 0, 0, "error", 0, <<Entry("Error", error_type)>>,
                     "", "")

\* TextExtractor._create_error_result
CreateErrorResult(error_type) ==
    ExtractedContent(<<>>, 0, 0, "error", 0, <<Entry("Error", error_type)>>,
                     error_type, "")

\* the result returned for an empty or whitespace-only string
EmptyInputResult ==
    ExtractedContent(<<>>, 0, 0, "empty_input", 0, <<>>, "", "Empty HTML input")

\* TextExtractor._create_result; removed is self.removed_elements
CreateResult(content, method, removed) ==
    IF content = <<>>
    THEN ExtractedContent(<<>>, 0, 0, method, 0, removed, "", "")
    ELSE ExtractedContent(
             content, Len(Words(content)),
             Len(SelectSeq(SplitPara(content, <<>>),
                           LAMBDA p : Words(p) # <<>>)),
             method, CalculateConfidenceScore(content, method), removed, "", "")

\* the warning attached only below 0.2
WithLowConfidenceWarningBelowTwo(r) ==
    IF r.confidence_score < 2
    THEN [r EXCEPT !.warning =
             "Low confidence extraction - content quality may be poor"]
    ELSE r

\* the generic fallback returned without the check of its confidence
WithLowConfidenceWarningNever(r) == r

\* Low-confidence warning of the generic fallback (extractor.py:188-189)
WithLowConfidenceWarning(r) ==
    IF r.confidence_score < 3
    THEN [r EXCEPT !.warning =
             "Low confidence extraction - content quality may be poor"]
    ELSE r

\* ------------------------------------------------------------------- inputs
\* The html argument: None, a non-string, or a string.  A string is the
\* sequence of its blocks of markup; WS is a run of whitespace.
WS == " "
HtmlNone      == [type |-> "NoneType", text |-> <<>>]
HtmlNonString == [type |-> "int", text |-> <<>>]
HtmlString(text) == [type |-> "str", text |-> text]

\* html.strip() == ''
IsBlank(text) == \A k \in 1..Len(text) : text[k] = WS

\* up to n boilerplate blocks followed by one content block
Documents(n) ==
    {b \o <<c>> : b \in UNION {[1..k -> BoilerplateBlocks] : k \in 0..n},
                  c \in ContentBlocks}

HtmlInputs ==
    {HtmlNone, HtmlNonString, HtmlString(<<>>), HtmlString(<<WS>>)}
    \cup {HtmlString(d) : d \in Documents(MaxBoilerplate)}
    \cup {HtmlString(<<b>>) : b \in BareBlocks}

\* ------------------------------------------------------------------- faults
\* A sub-step of extract_content either completes ("none") or raises an
\* exception of one of these classes.
Exceptions == {"Exception", "ExtractionError", "UnicodeDecodeError", "MemoryError"}
StepOutcomes == {"none"} \cup Exceptions

\* Sets of nodes whose extract() raises, for the runs with faults.
FaultyNodeSets == {{}, {2}}

\* Where an exception leaving a sub-step is handled.  "inner": by the
\* sub-step's own try block, which logs and continues (or, for the generic
\* step, builds the EXTRACTION_FAILED result).  "outer": by the handlers of
\* the enclosing try.
StepHandlerMissingForSite(step) ==
    IF step = "site_specific" THEN "outer" ELSE "inner"

\* extractor.py:150-197, and the try blocks inside _handle_encoding_issues
\* (231-254) and _safe_parse_html (269-286)
StepHandler(step) ==
    IF step \in {"encoding", "parse", "comments", "boilerplate",
                 "site_specific", "readability", "generic"}
    THEN "inner" ELSE "outer"

\* The handlers of the outer try (extractor.py:199-219): the error type of
\* the returned result, or "raise".
OuterHandler(exc) ==
    CASE exc = "ExtractionError"    -> "raise"
      [] exc = "UnicodeDecodeError" -> "ENCODING_ERROR"
      [] exc = "MemoryError"        -> "MEMORY_ERROR"
      [] OTHER                      -> "UNEXPECTED_ERROR"

\* permutations of a finite set, as sequences
Perms(S) ==
    {f \in [1..Cardinality(S) -> S] :
        \A i, j \in 1..Cardinality(S) : i # j => f[i] # f[j]}

\* the denylisted tag names that occur in the tree
PresentBoilerplateTags(tree, det) ==
    {tree[i].name : i \in {j \in 1..Len(tree) :
                              /\ tree[j].kind = "tag"
                              /\ tree[j].name \in BOILERPLATE_TAGS
                              /\ InTree(tree, det, j)}}

\* ------------------------------------------------------------------- state
VARIABLES
    pc,                \* position of the running extract_content call
    html,              \* its html argument
    site_selectors,    \* its site_selectors argument
    soup,              \* its parsed tree (<<>> before parsing)
    detached,          \* the nodes extracted from the tree
    removed_elements,  \* TextExtractor.removed_elements (instance field)
    result,            \* the ExtractedContent returned, once pc = "done"
    outcome,           \* "running", "returned" or "raised"
    faulty,            \* the nodes whose extract() raises
    calls,             \* number of calls made on the instance
    call_start,        \* length of removed_elements when the call began
    parser_soup,       \* HTMLParser.soup (instance field)
    parser_site_config,\* HTMLParser.site_config (instance field)
    threads,           \* the parse() calls running on the one HTMLParser
    probe,             \* the last evaluation of a function on its own:
                       \* its name, its arguments and its value
    fetcher,           \* the running HTTPFetcher.fetch call
    scraper,           \* the running NewsScraper.scrape_article call
    handler            \* the running lambda_handler invocation

\* the fetch, the scrape_article call and the handler invocation
svars == <<fetcher, scraper, handler>>

\* the fields of the HTMLParser instance and the calls running on it
pvars == <<parser_soup, parser_site_config, threads>>

\* the fields of the TextExtractor instance and its running call
evars == <<pc, html, site_selectors, soup, detached, removed_elements,
           result, outcome, faulty, calls, call_start>>

vars == <<evars, pvars, probe, svars>>

\* no function evaluated yet
NoProbe == [op |-> "none"]

\* the threads sharing the scraper's HTMLParser (scraper.py:86)
Threads == {1, 2}

\* a thread that has not called parse()
IdleThread ==
    [pc |-> "idle", html |-> HtmlNone, url |-> <<>>, result |-> <<>>,
     fallback_result |-> <<>>]

NoResult == ExtractedContent(<<>>, 0, 0, "none", 0, <<>>, "", "")

\* no fetch() call made yet
IdleFetcher == [pc |-> "idle"]

\* no scrape_article() call made yet
IdleScraper == [pc |-> "idle"]

\* no lambda_handler invocation yet
IdleHandler == [pc |-> "idle"]

\* TextExtractor.__init__ (extractor.py:92-95), before any call
InitWith(f) ==
    /\ pc = "idle"
    /\ html = HtmlNone
    /\ site_selectors = NoSelectors
    /\ soup = <<>>
    /\ detached = {}
    /\ removed_elements = <<>>
    /\ result = NoResult
    /\ outcome = "running"
    /\ faulty = f
    /\ calls = 0
    /\ call_start = 0
    /\ parser_soup = <<>>
    /\ parser_site_config = <<>>
    /\ threads = [t \in Threads |-> IdleThread]
    /\ probe = NoProbe
    /\ fetcher = IdleFetcher
    /\ scraper = IdleScraper
    /\ handler = IdleHandler

Init == InitWith({})

InitFault == \E f \in FaultyNodeSets : InitWith(f)

\* return r
Return(r) ==
    /\ result' = r
    /\ outcome' = "returned"
    /\ pc' = "done"

Continue(next_pc) ==
    /\ pc' = next_pc
    /\ UNCHANGED <<result, outcome>>

\* an exception of class exc reaches the handlers of the outer try
Propagate(exc) ==
    IF OuterHandler(exc) = "raise"
    THEN /\ outcome' = "raised" /\ pc' = "done" /\ result' = NoResult
    ELSE Return(CreateErrorResult(OuterHandler(exc)))

\* extract_content, lines 111-134: the call and its input validation
Call ==
    /\ pc = "idle"
    /\ calls < MaxCalls
    /\ \E h \in HtmlInputs, s \in SelectorInputs :
          /\ html' = h
          /\ site_selectors' = s
          /\ IF h.type = "NoneType" THEN Return(CreateErrorResult("NULL_INPUT"))
             ELSE IF h.type # "str"
             THEN Return(CreateErrorResult("INVALID_INPUT_TYPE"))
             ELSE IF IsBlank(h.text) THEN Return(EmptyInputResult)
             ELSE pc' = "encoding" /\ result' = NoResult /\ outcome' = "running"
    /\ calls' = calls + 1
    /\ call_start' = Len(removed_elements)
    /\ soup' = <<>>
    /\ detached' = {}
    /\ UNCHANGED <<removed_elements, faulty>>
    /\ UNCHANGED <<pvars, probe, svars>>

\* line 138: _handle_encoding_issues catches its own exceptions and returns
\* the string
HandleEncodingIssues(x) ==
    /\ pc = "encoding"
    /\ IF x # "none" /\ StepHandler("encoding") = "outer"
       THEN Propagate(x)
       ELSE Continue("parse")
    /\ UNCHANGED <<html, site_selectors, soup, detached, removed_elements,
                   faulty, calls, call_start>>
    /\ UNCHANGED <<pvars, probe, svars>>

\* _safe_parse_html, line 267
parsers == <<"html.parser", "lxml", "html5lib">>

\* What BeautifulSoup(html, parser) can do: raise (the backend is not
\* installed, or the parse fails), build the tree of the markup as written,
\* or build it wrapped in the elements the backend adds.  html.parser adds
\* none, html5lib always adds them.
BackendOutcomes(parser) ==
    CASE parser = "html.parser" -> {"raises", "as_written"}
      [] parser = "lxml" -> {"raises", "as_written", "wrapped"}
      [] parser = "html5lib" -> {"raises", "wrapped"}

TreeOf(built, blocks) ==
    IF built = "wrapped" THEN WrappedTree(blocks) ELSE BuildTree(blocks)

\* line 273: soup and (soup.find() or soup.get_text(strip=True))
ParseIsValid(tree) ==
    \/ \E k \in 1..Len(tree) : tree[k].kind = "tag"
    \/ \E k \in 1..Len(tree) : tree[k].kind = "text" /\ Words(tree[k].words) # <<>>

Attempt(parser, ended, built) ==
    [parser |-> parser, outcome |-> ended, built |-> built]

\* lines 269-286: the BeautifulSoup calls made, in order; the loop stops at
\* the first tree that is valid, and the call after the loop is returned
\* without the test of line 273
RECURSIVE SafeParseAttempts(_, _, _, _)
SafeParseAttempts(blocks, outcomes, recovery, k) ==
    IF k > Len(parsers)
    THEN <<IF recovery = "raises"
           THEN Attempt("html.parser", "raised", "none")
           ELSE Attempt("html.parser", "returned", recovery)>>
    ELSE IF outcomes[k] = "raises"
    THEN <<Attempt(parsers[k], "raised", "none")>>
         \o SafeParseAttempts(blocks, outcomes, recovery, k + 1)
    ELSE IF ParseIsValid(TreeOf(outcomes[k], blocks))
    THEN <<Attempt(parsers[k], "accepted", outcomes[k])>>
    ELSE <<Attempt(parsers[k], "rejected", outcomes[k])>>
         \o SafeParseAttempts(blocks, outcomes, recovery, k + 1)

\* a _safe_parse_html that applied the test of line 273 to its last parse too
SafeParseSoupValidated(blocks, attempts) ==
    LET last == attempts[Len(attempts)]
    IN IF last.outcome = "raised" THEN <<>>
       ELSE IF ParseIsValid(TreeOf(last.built, blocks))
       THEN TreeOf(last.built, blocks)
       ELSE <<>>

\* the soup _safe_parse_html returns, <<>> for None
SafeParseSoup(blocks, attempts) ==
    LET last == attempts[Len(attempts)]
    IN IF last.outcome = "raised" THEN <<>> ELSE TreeOf(last.built, blocks)

\* lines 141-147: _safe_parse_html; when it returns None the call returns
\* the HTML_PARSE_ERROR result.  An exception x is raised by every
\* BeautifulSoup call; without one html.parser parses, and lxml and html5lib
\* parse or, where they are not installed, raise.
SafeParseHtml(x) ==
    /\ pc = "parse"
    /\ IF x # "none" /\ StepHandler("parse") = "outer"
       THEN /\ Propagate(x)
            /\ UNCHANGED <<soup, probe>>
       ELSE \E outcomes \in [1..Len(parsers) -> {"raises", "as_written", "wrapped"}],
               recovery \in BackendOutcomes("html.parser") :
            /\ \A k \in 1..Len(parsers) : outcomes[k] \in BackendOutcomes(parsers[k])
            /\ IF x # "none"
               THEN recovery = "raises" /\ \A k \in 1..Len(parsers) : outcomes[k] = "raises"
               ELSE recovery = "as_written" /\ outcomes[1] = "as_written"
            /\ LET attempts == SafeParseAttempts(html.text, outcomes, recovery, 1)
                   parsed == SafeParseSoup(html.text, attempts)
               IN /\ probe' = [op |-> "safe_parse", attempts |-> attempts]
                  /\ soup' = parsed
                  /\ IF attempts[Len(attempts)].outcome = "raised"
                     THEN Return(CreateErrorResult("HTML_PARSE_ERROR"))
                     ELSE Continue("comments")
    /\ UNCHANGED <<html, site_selectors, detached, removed_elements,
                   faulty, calls, call_start>>
    /\ UNCHANGED <<pvars, svars>>

\* lines 150-154
RemoveComments(x) ==
    /\ pc = "comments"
    /\ IF x # "none"
       THEN /\ UNCHANGED <<detached, removed_elements>>
            /\ IF StepHandler("comments") = "outer" THEN Propagate(x)
               ELSE Continue("boilerplate")
       ELSE LET st == RemoveCommentsAndScripts(soup,
                          [det |-> detached, log |-> removed_elements], faulty)
            IN /\ detached' = st.det
               /\ removed_elements' = st.log
               /\ Continue("boilerplate")
    /\ UNCHANGED <<html, site_selectors, soup, faulty, calls, call_start>>
    /\ UNCHANGED <<pvars, probe, svars>>

\* lines 157-161; an extract() that raises in the unguarded third pass ends
\* _remove_boilerplate_elements with an exception
RemoveBoilerplate(x) ==
    /\ pc = "boilerplate"
    /\ IF x # "none"
       THEN /\ UNCHANGED <<detached, removed_elements>>
            /\ IF StepHandler("boilerplate") = "outer" THEN Propagate(x)
               ELSE Continue("site_specific")
       ELSE \E order \in Perms(PresentBoilerplateTags(soup, detached)) :
              LET st == RemoveBoilerplateElements(soup,
                            [det |-> detached, log |-> removed_elements],
                            order, faulty)
              IN /\ detached' = st.det
                 /\ removed_elements' = st.log
                 /\ IF st.raised /\ StepHandler("boilerplate") = "outer"
                    THEN Propagate("Exception")
                    ELSE Continue("site_specific")
    /\ UNCHANGED <<html, site_selectors, soup, faulty, calls, call_start>>
    /\ UNCHANGED <<pvars, probe, svars>>

\* the site-specific step computing its candidate and never returning it
TrySiteSpecificNeverAccepts(x) ==
    /\ pc = "site_specific"
    /\ Continue("readability")
    /\ UNCHANGED <<html, site_selectors, soup, detached, removed_elements,
                   faulty, calls, call_start>>
    /\ UNCHANGED <<pvars, probe, svars>>

\* lines 164-171: site-specific extraction, accepted if it passes the gate
TrySiteSpecific(x) ==
    /\ pc = "site_specific"
    /\ IF ~site_selectors.given
       THEN Continue("readability")
       ELSE IF x # "none"
       THEN IF StepHandler("site_specific") = "outer" THEN Propagate(x)
            ELSE Continue("readability")
       ELSE LET content == ExtractWithSelectors(soup, detached, site_selectors)
            IN IF content # <<>> /\ IsGoodContent(content)
               THEN Return(CreateResult(content, "site_specific", removed_elements))
               ELSE Continue("readability")
    /\ UNCHANGED <<html, site_selectors, soup, detached, removed_elements,
                   faulty, calls, call_start>>
    /\ UNCHANGED <<pvars, probe, svars>>

\* the readability step returning its candidate without the quality gate
TryReadabilityUngated(x) ==
    /\ pc = "readability"
    /\ IF x # "none"
       THEN IF StepHandler("readability") = "outer" THEN Propagate(x)
            ELSE Continue("generic")
       ELSE LET content == ExtractWithReadability(soup, detached)
            IN IF content # <<>>
               THEN Return(CreateResult(content, "readability", removed_elements))
               ELSE Continue("generic")
    /\ UNCHANGED <<html, site_selectors, soup, detached, removed_elements,
                   faulty, calls, call_start>>
    /\ UNCHANGED <<pvars, probe, svars>>

\* lines 174-180: readability extraction, accepted if it passes the gate
TryReadability(x) ==
    /\ pc = "readability"
    /\ IF x # "none"
       THEN IF StepHandler("readability") = "outer" THEN Propagate(x)
            ELSE Continue("generic")
       ELSE LET content == ExtractWithReadability(soup, detached)
            IN IF content # <<>> /\ IsGoodContent(content)
               THEN Return(CreateResult(content, "readability", removed_elements))
               ELSE Continue("generic")
    /\ UNCHANGED <<html, site_selectors, soup, detached, removed_elements,
                   faulty, calls, call_start>>
    /\ UNCHANGED <<pvars, probe, svars>>

\* lines 183-197: the generic fallback is returned whatever its quality
GenericFallback(x) ==
    /\ pc = "generic"
    /\ IF x # "none"
       THEN IF StepHandler("generic") = "outer" THEN Propagate(x)
            ELSE Return(CreateErrorResult("EXTRACTION_FAILED"))
       ELSE Return(WithLowConfidenceWarning(
                CreateResult(ExtractGenericContent(soup, detached),
                             "generic_fallback", removed_elements)))
    /\ UNCHANGED <<html, site_selectors, soup, detached, removed_elements,
                   faulty, calls, call_start>>
    /\ UNCHANGED <<pvars, probe, svars>>

\* The caller takes the result and the call's locals are released; the
\* instance is ready for its next call (NewsScraper keeps one TextExtractor,
\* scraper.py:87, and calls it once per article, scraper.py:133).
NextCall ==
    /\ pc = "done"
    /\ outcome = "returned"
    /\ calls < MaxCalls
    /\ pc' = "idle"
    /\ html' = HtmlNone
    /\ site_selectors' = NoSelectors
    /\ soup' = <<>>
    /\ detached' = {}
    /\ result' = NoResult
    /\ outcome' = "running"
    /\ probe' = NoProbe
    /\ UNCHANGED <<removed_elements, faulty, calls, call_start>>
    /\ UNCHANGED <<pvars, svars>>

\* one extract_content call on a fresh TextExtractor, every sub-step
\* completing
Next ==
    \/ Call
    \/ HandleEncodingIssues("none")
    \/ SafeParseHtml("none")
    \/ RemoveComments("none")
    \/ RemoveBoilerplate("none")
    \/ TrySiteSpecific("none")
    \/ TryReadability("none")
    \/ GenericFallback("none")

Spec == Init /\ [][Next]_vars

\* the same call, where each sub-step may raise
NextFault ==
    \/ Call
    \/ \E x \in StepOutcomes :
          \/ HandleEncodingIssues(x)
          \/ SafeParseHtml(x)
          \/ RemoveComments(x)
          \/ RemoveBoilerplate(x)
          \/ TrySiteSpecific(x)
          \/ TryReadability(x)
          \/ GenericFallback(x)

SpecFault == InitFault /\ [][NextFault]_vars

\* consecutive calls on one TextExtractor instance
NextSeq == Next \/ NextCall

SpecSeq == Init /\ [][NextSeq]_vars

\* =================================================================== claims
Returned == pc = "done" /\ outcome = "returned"

\* the call got as far as the content cascade
Extracted ==
    Returned /\ result.extraction_method \in
                   {"site_specific", "readability", "generic_fallback"}

SiteCandidate == ExtractWithSelectors(soup, detached, site_selectors)
ReadabilityCandidate == ExtractWithReadability(soup, detached)
SitePasses == site_selectors.given /\ IsGoodContent(SiteCandidate)
ReadabilityPasses == IsGoodContent(ReadabilityCandidate)

Occurs(w, text) == \E k \in 1..Len(text) : text[k] = w

WellFormedResult(r) ==
    /\ r.extraction_method \in {"site_specific", "readability",
                                "generic_fallback", "error", "empty_input"}
    /\ r.confidence_score \in 0..10
    /\ r.word_count = Len(Words(r.clean_text))
    /\ r.extraction_method = "error" => r.error_type # "" /\ r.clean_text = <<>>

C2_MethodPriority ==
    (Extracted /\ SitePasses) => result.extraction_method = "site_specific"

C2_Witness ==
    Extracted /\ SitePasses /\ ReadabilityPasses
    /\ result.extraction_method = "site_specific"

\* C3: the cascade stops at the first candidate that passes the gate:
\* "readability" only if the site-specific candidate did not pass,
\* "generic_fallback" only if neither passed, and a result of the first two
\* methods passes the gate, so it has at least 50 words.
C3_CascadeOrder ==
    Extracted =>
       /\ result.extraction_method = "readability" => ~SitePasses
       /\ result.extraction_method = "generic_fallback" =>
             ~SitePasses /\ ~ReadabilityPasses
       /\ result.extraction_method \in {"site_specific", "readability"} =>
             IsGoodContent(result.clean_text) /\ result.word_count >= 50

C3_Witness ==
    Extracted /\ result.extraction_method = "readability"
    /\ site_selectors.given /\ SiteCandidate # <<>>

\* An element the claim C4 calls boilerplate: denylisted tag, class/id
\* matching a pattern, hidden by its inline style, or carrying a data-ad or
\* data-widget attribute.
MarkedBoilerplate(node) ==
    /\ node.kind = "tag"
    /\ \/ node.name \in BOILERPLATE_TAGS
       \/ MatchCount(BOILERPLATE_PATTERNS, TextToCheck(node)) > 0
       \/ node.data_ad # Absent \/ node.data_widget # Absent
       \/ Contains(Lower(RemoveSpaces(node.style)), <<"d", "i", "s", "p", "l", "a", "y", ":", "n", "o", "n", "e">>)
       \/ Contains(Lower(RemoveSpaces(node.style)), <<"v", "i", "s", "i", "b", "i", "l", "i", "t", "y", ":", "h", "i", "d", "d", "e", "n">>)

\* node n of the parsed document lies inside such an element
RECURSIVE InsideBoilerplate(_, _)
InsideBoilerplate(tree, n) ==
    LET p == tree[n].parent
    IN IF p = 0 THEN FALSE
       ELSE MarkedBoilerplate(tree[p]) \/ InsideBoilerplate(tree, p)

\* the words that occur in the document only inside boilerplate elements
BoilerplateOnlyWords(tree) ==
    {w \in DOMAIN Vocab :
        /\ \E n \in 1..Len(tree) : /\ tree[n].kind = "text"
                                   /\ Occurs(w, tree[n].words)
        /\ \A n \in 1..Len(tree) :
              (tree[n].kind = "text" /\ Occurs(w, tree[n].words))
                 => InsideBoilerplate(tree, n)}

\* C4: no text that lies only inside boilerplate elements appears in the
\* returned clean_text.
C4_NoBoilerplateText ==
    Extracted => \A w \in BoilerplateOnlyWords(soup) : ~Occurs(w, result.clean_text)

\* C5: on a filtered tree, _remove_boilerplate_elements removes no element
\* and logs nothing; and inside one run, the pattern pass repeated at the end
\* of the function removes and logs nothing after the first.
C5_FilterIdempotent ==
    /\ pc = "site_specific" =>
          \A order \in Perms(PresentBoilerplateTags(soup, detached)) :
             LET again == RemoveBoilerplateElements(soup,
                              [det |-> detached, log |-> removed_elements],
                              order, faulty)
             IN again.det = detached /\ again.log = removed_elements
    /\ pc = "boilerplate" =>
          \A order \in Perms(PresentBoilerplateTags(soup, detached)) :
             LET s1 == RemoveByTag(soup, [det |-> detached, log |-> removed_elements],
                                   order, faulty)
                 s2 == RemoveByPattern(soup, s1, FindAllTags(soup, s1.det), faulty)
                 s3 == RemoveByPatternUnguarded(soup, s2,
                                                FindAllTags(soup, s2.det), faulty)
             IN s3.det = s2.det /\ s3.log = s2.log

\* a filtered tree from which both passes removed elements
C5_Witness ==
    /\ pc = "site_specific"
    /\ \E k \in 1..Len(removed_elements) : removed_elements[k][1] = "tag"
    /\ \E k \in 1..Len(removed_elements) : removed_elements[k][1] = "pattern"

\* every strategy's candidate failed the gate
Exhausted == Extracted /\ ~SitePasses /\ ~ReadabilityPasses
             /\ ~IsGoodContent(result.clean_text)

\* C8 as stated: exhaustion of all strategies gives confidence 0.0 and an
\* EXTRACTION_FAILED error; no failed candidate has non-zero confidence.
C8_ExhaustionIsError ==
    Exhausted => /\ result.confidence_score = 0
                 /\ result.error_type = "EXTRACTION_FAILED"

\* C8 amended: on exhaustion the generic candidate is returned ungated as
\* "generic_fallback" without error information; its confidence is 0.0 only
\* when it is empty, and it carries the low-confidence warning exactly when
\* its confidence is below 0.3.
C8_ExhaustionReturnsGeneric ==
    (Returned /\ soup # <<>> /\ ~SitePasses /\ ~ReadabilityPasses) =>
       /\ result.extraction_method = "generic_fallback"
       /\ result.error_type = ""
       /\ result.confidence_score = 0 <=> result.clean_text = <<>>
       /\ result.confidence_score < 3 <=> result.warning # ""

\* a candidate that fails the gate returned with non-zero confidence
C8_Witness ==
    Exhausted /\ result.confidence_score >= 4 /\ result.warning = ""

\* the text of the whole document
DocumentWords(tree) ==
    Flatten([n \in 1..Len(tree) |->
                IF tree[n].kind = "text" THEN tree[n].words ELSE <<>>])

\* one sentence of at most 10 words
ShortSentence(words) ==
    /\ words # <<>>
    /\ Len(words) <= 10
    /\ \A k \in 1..Len(words) : Vocab[words[k]].term <=> k = Len(words)

\* C9: a document whose whole text is one sentence of at most 10 words is
\* never accepted: confidence 0.0, or empty clean_text, or an error result.
C9_ShortRejected ==
    (Returned /\ soup # <<>> /\ ShortSentence(DocumentWords(soup))) =>
       \/ result.confidence_score = 0
       \/ result.clean_text = <<>>
       \/ result.extraction_method = "error"

\* the sentence sits in a paragraph and the generic fallback is reached
C9_Witness ==
    /\ Returned /\ soup # <<>> /\ ShortSentence(DocumentWords(soup))
    /\ Len(DocumentWords(soup)) = 10
    /\ FindAll(soup, detached, "p") # <<>>
    /\ result.extraction_method = "generic_fallback"

C10_Case ==
    /\ Returned
    /\ html = HtmlString(<<"c10_document">>)
    /\ site_selectors = GenericProfile

C6_LogPerCall ==
    Extracted =>
       result.removed_elements =
          SubSeq(removed_elements, call_start + 1, Len(removed_elements))

\* ===================================================== HTMLParser (parser.py)
\* ------------------------------------------------------------ site registry
SiteConfig(domain, title, content, author, date, fallbacks) ==
    [domain |-> domain, title_selector |-> title, content_selector |-> content,
     author_selector |-> author, date_selector |-> date,
     fallback_selectors |-> fallbacks]

\* config/sites.py:12-25
GUARDIAN_CONFIG ==
    SiteConfig(<<"t", "h", "e", "g", "u", "a", "r", "d", "i", "a", "n", ".", "c", "o", "m">>,
        <<One(TA("h1", "data-gu-name", <<"h", "e", "a", "d", "l", "i", "n", "e">>)),
          One(TC("h1", <<"c", "o", "n", "t", "e", "n", "t", "_", "_", "h", "e", "a", "d", "l", "i", "n", "e">>))>>,
        <<Alt(TA("div", "data-gu-name", <<"b", "o", "d", "y">>), T("p")),
          Alt(TC("div", <<"c", "o", "n", "t", "e", "n", "t", "_", "_", "a", "r", "t", "i", "c", "l", "e", "-", "b", "o", "d", "y">>), T("p"))>>,
        <<One(TA("a", "rel", <<"a", "u", "t", "h", "o", "r">>)), Alt(C(<<"b", "y", "l", "i", "n", "e">>), T("a")),
          Alt(T("address"), T("a"))>>,
        <<One(TA("time", "datetime", <<>>)),
          Alt(C(<<"c", "o", "n", "t", "e", "n", "t", "_", "_", "d", "a", "t", "e", "l", "i", "n", "e">>), T("time"))>>,
        <<<<Alt(T("article"), T("p"))>>, <<Alt(C(<<"a", "r", "t", "i", "c", "l", "e", "-", "b", "o", "d", "y">>), T("p"))>>,
          <<Alt(C(<<"c", "o", "n", "t", "e", "n", "t">>), T("p"))>>, <<Alt(T("main"), T("p"))>>>>)

\* config/sites.py:28-40
TIMES_OF_INDIA_CONFIG ==
    SiteConfig(<<"t", "i", "m", "e", "s", "o", "f", "i", "n", "d", "i", "a", ".", "i", "n", "d", "i", "a", "t", "i", "m", "e", "s", ".", "c", "o", "m">>,
        <<One(TC("h1", <<"H", "N", "M", "D", "R">>)), One(TC("h1", <<"_", "2", "y", "W", "c", "d">>)), One(T("h1"))>>,
        <<Alt(TC("div", <<"_", "s", "3", "0", "J">>), T("p")), Alt(TC("div", <<"g", "a", "-", "h", "e", "a", "d", "l", "i", "n", "e", "s">>), T("p")),
          Alt(C(<<"N", "o", "r", "m", "a", "l">>), T("p"))>>,
        <<One(C(<<"b", "y", "l", "i", "n", "e">>)), One(C(<<"a", "u", "t", "h", "o", "r", "-", "n", "a", "m", "e">>)), One(C(<<"w", "r", "i", "t", "e", "r", "-", "n", "a", "m", "e">>))>>,
        <<One(C(<<"p", "u", "b", "l", "i", "s", "h", "-", "d", "a", "t", "e">>)), One(C(<<"d", "a", "t", "e", "-", "l", "i", "n", "e">>)), One(T("time"))>>,
        <<<<Alt(T("article"), T("p"))>>, <<Alt(C(<<"s", "t", "o", "r", "y", "-", "c", "o", "n", "t", "e", "n", "t">>), T("p"))>>,
          <<Alt(C(<<"a", "r", "t", "i", "c", "l", "e", "-", "c", "o", "n", "t", "e", "n", "t">>), T("p"))>>, <<Alt(T("main"), T("p"))>>>>)

\* config/sites.py:43-54
GENERIC_CONFIG ==
    SiteConfig(<<"*">>,
        <<One(T("h1")), One(C(<<"t", "i", "t", "l", "e">>)), One(C(<<"h", "e", "a", "d", "l", "i", "n", "e">>))>>,
        GENERIC_CONTENT_SELECTOR,
        <<One(C(<<"a", "u", "t", "h", "o", "r">>)), One(C(<<"b", "y", "l", "i", "n", "e">>)), One(C(<<"w", "r", "i", "t", "e", "r">>))>>,
        <<One(T("time")), One(C(<<"d", "a", "t", "e">>)), One(C(<<"p", "u", "b", "l", "i", "s", "h", "e", "d">>))>>,
        <<<<One(T("p"))>>, <<Alt(T("div"), T("p"))>>,
          <<Alt(T("main"), T("p"))>>, <<Alt(T("section"), T("p"))>>>>)

\* config/sites.py:57-63: the keys of SITE_CONFIGS and their values
SITE_CONFIG_KEYS ==
    {<<"t", "h", "e", "g", "u", "a", "r", "d", "i", "a", "n", ".", "c", "o", "m">>, <<"w", "w", "w", ".", "t", "h", "e", "g", "u", "a", "r", "d", "i", "a", "n", ".", "c", "o", "m">>,
     <<"t", "i", "m", "e", "s", "o", "f", "i", "n", "d", "i", "a", ".", "i", "n", "d", "i", "a", "t", "i", "m", "e", "s", ".", "c", "o", "m">>, <<"w", "w", "w", ".", "t", "i", "m", "e", "s", "o", "f", "i", "n", "d", "i", "a", ".", "i", "n", "d", "i", "a", "t", "i", "m", "e", "s", ".", "c", "o", "m">>, <<"*">>}

SITE_CONFIGS(key) ==
    IF key \in {<<"t", "h", "e", "g", "u", "a", "r", "d", "i", "a", "n", ".", "c", "o", "m">>, <<"w", "w", "w", ".", "t", "h", "e", "g", "u", "a", "r", "d", "i", "a", "n", ".", "c", "o", "m">>} THEN GUARDIAN_CONFIG
    ELSE IF key \in {<<"t", "i", "m", "e", "s", "o", "f", "i", "n", "d", "i", "a", ".", "i", "n", "d", "i", "a", "t", "i", "m", "e", "s", ".", "c", "o", "m">>,
                     <<"w", "w", "w", ".", "t", "i", "m", "e", "s", "o", "f", "i", "n", "d", "i", "a", ".", "i", "n", "d", "i", "a", "t", "i", "m", "e", "s", ".", "c", "o", "m">>}
    THEN TIMES_OF_INDIA_CONFIG
    ELSE GENERIC_CONFIG

\* str.startswith
StartsWith(s, prefix) ==
    Len(s) >= Len(prefix) /\ SubSeq(s, 1, Len(prefix)) = prefix

\* the lookup without domain.lower()
GetSiteConfigByDomainCaseSensitive(domain) ==
    LET normalized_domain ==
            IF StartsWith(domain, <<"w", "w", "w", ".">>)
            THEN SubSeq(domain, 5, Len(domain)) ELSE domain
        www_domain == <<"w", "w", "w", ".">> \o normalized_domain
    IN IF normalized_domain \in SITE_CONFIG_KEYS THEN SITE_CONFIGS(normalized_domain)
       ELSE IF www_domain \in SITE_CONFIG_KEYS THEN SITE_CONFIGS(www_domain)
       ELSE SITE_CONFIGS(<<"*">>)

\* config/sites.py:66-91
GetSiteConfigByDomain(domain) ==
    LET lowered == Lower(domain)
        normalized_domain ==
            IF StartsWith(lowered, <<"w", "w", "w", ".">>)
            THEN SubSeq(lowered, 5, Len(lowered)) ELSE lowered
        www_domain == <<"w", "w", "w", ".">> \o normalized_domain
    IN IF normalized_domain \in SITE_CONFIG_KEYS THEN SITE_CONFIGS(normalized_domain)
       ELSE IF www_domain \in SITE_CONFIG_KEYS THEN SITE_CONFIGS(www_domain)
       ELSE SITE_CONFIGS(<<"*">>)

\* A URL is its network location; HTMLParser._extract_domain lower-cases it.
ExtractDomain(url) == Lower(url)

\* ------------------------------------------------------------ date parsing
Digits == <<"0", "1", "2", "3", "4", "5", "6", "7", "8", "9">>

IsDigit(c) == \E k \in 1..10 : Digits[k] = c

DigitValue(c) == (CHOOSE k \in 1..10 : Digits[k] = c) - 1

IsNumber(s, minLen, maxLen) ==
    /\ Len(s) >= minLen /\ Len(s) <= maxLen
    /\ \A k \in 1..Len(s) : IsDigit(s[k])

RECURSIVE ToNat(_)
ToNat(s) ==
    IF s = <<>> THEN 0
    ELSE 10 * ToNat(SubSeq(s, 1, Len(s) - 1)) + DigitValue(s[Len(s)])

\* str.split(sep) for a one-character separator
RECURSIVE SplitOn(_, _, _)
SplitOn(s, sep, cur) ==
    IF s = <<>> THEN <<cur>>
    ELSE IF Head(s) = sep THEN <<cur>> \o SplitOn(Tail(s), sep, <<>>)
    ELSE SplitOn(Tail(s), sep, Append(cur, Head(s)))

IsLeap(y) == (y % 4 = 0 /\ y % 100 # 0) \/ y % 400 = 0

DaysIn(y, m) ==
    IF m = 2 THEN (IF IsLeap(y) THEN 29 ELSE 28)
    ELSE IF m \in {4, 6, 9, 11} THEN 30 ELSE 31

\* the fields %Y, %m, %d of strptime, as digit strings
ValidDate(y, m, d) ==
    /\ IsNumber(y, 4, 4) /\ IsNumber(m, 1, 2) /\ IsNumber(d, 1, 2)
    /\ ToNat(y) >= 1
    /\ ToNat(m) \in 1..12
    /\ ToNat(d) >= 1 /\ ToNat(d) <= DaysIn(ToNat(y), ToNat(m))

\* %H:%M:%S
ValidTime(t) ==
    LET p == SplitOn(t, ":", <<>>)
    IN /\ Len(p) = 3
       /\ IsNumber(p[1], 1, 2) /\ ToNat(p[1]) <= 23
       /\ IsNumber(p[2], 1, 2) /\ ToNat(p[2]) <= 59
       /\ IsNumber(p[3], 1, 2) /\ ToNat(p[3]) <= 61

MonthNames ==
    << <<"j", "a", "n", "u", "a", "r", "y">>, <<"f", "e", "b", "r", "u", "a", "r", "y">>, <<"m", "a", "r", "c", "h">>, <<"a", "p", "r", "i", "l">>, <<"m", "a", "y">>, <<"j", "u", "n", "e">>, <<"j", "u", "l", "y">>,
       <<"a", "u", "g", "u", "s", "t">>, <<"s", "e", "p", "t", "e", "m", "b", "e", "r">>, <<"o", "c", "t", "o", "b", "e", "r">>, <<"n", "o", "v", "e", "m", "b", "e", "r">>, <<"d", "e", "c", "e", "m", "b", "e", "r">> >>

IsMonthName(s) == \E k \in 1..12 : MonthNames[k] = Lower(s)

MonthNumber(s) == CHOOSE k \in 1..12 : MonthNames[k] = Lower(s)

DateTime(y, m, d, time, tz) ==
    [year |-> y, month |-> m, day |-> d, time |-> time, tz |-> tz]

\* date_str matched against one format of HTMLParser._parse_datetime; the
\* result is <<>> (no match) or <<datetime>>.
TryFormat(s, fmt) ==
    CASE fmt = "%Y-%m-%d" ->
           LET p == SplitOn(s, "-", <<>>)
           IN IF Len(p) = 3 /\ ValidDate(p[1], p[2], p[3])
              THEN <<DateTime(ToNat(p[1]), ToNat(p[2]), ToNat(p[3]), <<>>, "naive")>>
              ELSE <<>>
      [] fmt = "%d/%m/%Y" ->
           LET p == SplitOn(s, "/", <<>>)
           IN IF Len(p) = 3 /\ ValidDate(p[3], p[2], p[1])
              THEN <<DateTime(ToNat(p[3]), ToNat(p[2]), ToNat(p[1]), <<>>, "naive")>>
              ELSE <<>>
      [] fmt = "%m/%d/%Y" ->
           LET p == SplitOn(s, "/", <<>>)
           IN IF Len(p) = 3 /\ ValidDate(p[3], p[1], p[2])
              THEN <<DateTime(ToNat(p[3]), ToNat(p[1]), ToNat(p[2]), <<>>, "naive")>>
              ELSE <<>>
      [] fmt = "%Y-%m-%d %H:%M:%S" ->
           LET q == SplitOn(s, " ", <<>>)
               p == SplitOn(q[1], "-", <<>>)
           IN IF Len(q) = 2 /\ Len(p) = 3 /\ ValidDate(p[1], p[2], p[3])
                 /\ ValidTime(q[2])
              THEN <<DateTime(ToNat(p[1]), ToNat(p[2]), ToNat(p[3]), q[2], "naive")>>
              ELSE <<>>
      [] fmt = "%Y-%m-%dT%H:%M:%SZ" ->
           LET q == SplitOn(s, "T", <<>>)
               p == SplitOn(q[1], "-", <<>>)
           IN IF Len(q) = 2 /\ Len(p) = 3 /\ ValidDate(p[1], p[2], p[3])
                 /\ Len(q[2]) >= 1 /\ q[2][Len(q[2])] = "Z"
                 /\ ValidTime(SubSeq(q[2], 1, Len(q[2]) - 1))
              THEN <<DateTime(ToNat(p[1]), ToNat(p[2]), ToNat(p[3]),
                              SubSeq(q[2], 1, Len(q[2]) - 1), "naive")>>
              ELSE <<>>
      \* %z: "Z", or a sign and HHMM or HH:MM
      [] fmt = "%Y-%m-%dT%H:%M:%S%z" ->
           LET q == SplitOn(s, "T", <<>>)
               p == SplitOn(q[1], "-", <<>>)
               zoneAt == IF Len(q) = 2 /\ Len(q[2]) >= 1 /\ q[2][Len(q[2])] = "Z"
                         THEN Len(q[2])
                         ELSE IF Len(q) = 2
                                 /\ \E k \in 1..Len(q[2]) : q[2][k] = "+"
                         THEN CHOOSE k \in 1..Len(q[2]) : q[2][k] = "+"
                         ELSE 0
               zone == IF zoneAt = 0 THEN <<>>
                       ELSE SubSeq(q[2], zoneAt, Len(q[2]))
               zoneDigits == SelectSeq(zone, LAMBDA c : c \notin {"+", ":", "Z"})
           IN IF Len(q) = 2 /\ Len(p) = 3 /\ ValidDate(p[1], p[2], p[3])
                 /\ zoneAt > 0
                 /\ ValidTime(SubSeq(q[2], 1, zoneAt - 1))
                 /\ (zone = <<"Z">> \/ IsNumber(zoneDigits, 4, 4))
              THEN <<DateTime(ToNat(p[1]), ToNat(p[2]), ToNat(p[3]),
                              SubSeq(q[2], 1, zoneAt - 1), zone)>>
              ELSE <<>>
      [] fmt = "%B %d, %Y" ->
           LET q == SplitOn(s, " ", <<>>)
               day == IF Len(q) = 3 /\ Len(q[2]) >= 1
                      THEN SubSeq(q[2], 1, Len(q[2]) - 1) ELSE <<>>
           IN IF Len(q) = 3 /\ IsMonthName(q[1]) /\ Len(q[2]) >= 2
                 /\ q[2][Len(q[2])] = "," /\ IsNumber(day, 1, 2)
                 /\ IsNumber(q[3], 4, 4)
                 /\ ToNat(day) >= 1
                 /\ ToNat(day) <= DaysIn(ToNat(q[3]), MonthNumber(q[1]))
              THEN <<DateTime(ToNat(q[3]), MonthNumber(q[1]), ToNat(day), <<>>, "naive")>>
              ELSE <<>>
      [] fmt = "%d %B %Y" ->
           LET q == SplitOn(s, " ", <<>>)
           IN IF Len(q) = 3 /\ IsMonthName(q[2]) /\ IsNumber(q[1], 1, 2)
                 /\ IsNumber(q[3], 4, 4)
                 /\ ToNat(q[1]) >= 1
                 /\ ToNat(q[1]) <= DaysIn(ToNat(q[3]), MonthNumber(q[2]))
              THEN <<DateTime(ToNat(q[3]), MonthNumber(q[2]), ToNat(q[1]), <<>>, "naive")>>
              ELSE <<>>

\* parser.py:382-391
DATE_FORMATS ==
    <<"%Y-%m-%dT%H:%M:%S%z", "%Y-%m-%dT%H:%M:%SZ", "%Y-%m-%d %H:%M:%S",
      "%Y-%m-%d", "%d/%m/%Y", "%m/%d/%Y", "%B %d, %Y", "%d %B %Y">>

RECURSIVE FirstFormat(_, _)
FirstFormat(s, formats) ==
    IF formats = <<>> THEN <<>>
    ELSE LET Tried(parsed) ==
                 IF parsed # <<>> THEN parsed ELSE FirstFormat(s, Tail(formats))
         IN Tried(TryFormat(s, Head(formats)))


\* ------------------------------------------------------------ parser text
\* Text handled by HTMLParser is a sequence of characters.
IsSpace(c) == c \in {" ", NL}

\* the characters of a NavigableString whose tokens are `tokens`: adjacent
\* words are separated by one space
RECURSIVE SpellText(_)
SpellText(tokens) ==
    IF tokens = <<>> THEN <<>>
    ELSE LET t == Head(tokens)
             rest == Tail(tokens)
         IN (IF t = NL THEN <<NL>> ELSE IF t = PARA THEN <<NL, NL>>
             ELSE Spelling[t])
            \o (IF IsWord(t) /\ rest # <<>> /\ IsWord(Head(rest))
                THEN <<" ">> ELSE <<>>)
            \o SpellText(rest)

\* element.get_text(): the strings of the element, concatenated
GetText(tree, e) ==
    LET strings == SelectSeq(Descendants(tree, {}, e),
                             LAMBDA i : tree[i].kind = "text")
    IN Flatten([k \in 1..Len(strings) |-> SpellText(tree[strings[k]].words)])

\* str.strip()
Strip(s) ==
    LET kept == {i \in 1..Len(s) : ~IsSpace(s[i])}
    IN IF kept = {} THEN <<>>
       ELSE SubSeq(s, CHOOSE i \in kept : \A j \in kept : i <= j,
                      CHOOSE i \in kept : \A j \in kept : j <= i)

\* HTMLParser._parse_datetime: <<>> is None
ParseDatetime(date_str) ==
    IF date_str = <<>> THEN <<>>
    ELSE FirstFormat(Strip(date_str), DATE_FORMATS)

\* re.sub(r'\s+', ' ', s): every run of whitespace becomes one space
CollapseWhitespace(s) ==
    LET kept == SelectSeq(Indices(s),
                    LAMBDA i : ~IsSpace(s[i]) \/ i = 1 \/ ~IsSpace(s[i - 1]))
    IN [k \in 1..Len(kept) |-> IF IsSpace(s[kept[k]]) THEN " " ELSE s[kept[k]]]

\* str.split(): the maximal runs of non-whitespace characters
Split(s) ==
    LET starts == SelectSeq(Indices(s),
                      LAMBDA i : ~IsSpace(s[i]) /\ (i = 1 \/ IsSpace(s[i - 1])))
        EndOf(i) == CHOOSE j \in i..Len(s) :
                       /\ \A k \in i..j : ~IsSpace(s[k])
                       /\ j = Len(s) \/ IsSpace(s[j + 1])
    IN [k \in 1..Len(starts) |-> SubSeq(s, starts[k], EndOf(starts[k]))]

\* sep.join(parts)
RECURSIVE Join(_, _)
Join(sep, parts) ==
    IF parts = <<>> THEN <<>>
    ELSE IF Len(parts) = 1 THEN parts[1]
    ELSE parts[1] \o sep \o Join(sep, Tail(parts))

\* parser.py:375
LEADING_MARKERS ==
    << <<"A", "d", "v", "e", "r", "t", "i", "s", "e", "m", "e", "n", "t">>, <<"S", "p", "o", "n", "s", "o", "r", "e", "d">>, <<"R", "e", "l", "a", "t", "e", "d", ":">>, <<"S", "h", "a", "r", "e", ":">>, <<"F", "o", "l", "l", "o", "w", ":">> >>

\* re.sub(r'^(A|B|...)', '', text, flags=re.IGNORECASE): the first
\* alternative that matches at the start is removed
RemoveLeadingMarker(text) ==
    LET hits == {k \in 1..Len(LEADING_MARKERS) :
                    StartsWith(Lower(text), Lower(LEADING_MARKERS[k]))}
    IN IF hits = {} THEN text
       ELSE LET k == CHOOSE h \in hits : \A g \in hits : h <= g
            IN SubSeq(text, Len(LEADING_MARKERS[k]) + 1, Len(text))

\* HTMLParser._clean_text
ParserCleanText(text) ==
    IF text = <<>> THEN <<>>
    ELSE RemoveLeadingMarker(CollapseWhitespace(Strip(text)))

\* ------------------------------------------------------- field extraction
\* Optional values: None is <<>>, a value v is <<v>>.  `tree` is self.soup
\* (<<>> for None) as the method reads it.

\* the first value of the list that is not None (not empty)
RECURSIVE FirstValue(_)
FirstValue(values) ==
    IF values = <<>> THEN <<>>
    ELSE IF Head(values) # <<>> THEN Head(values)
    ELSE FirstValue(Tail(values))


\* HTMLParser._extract_title
ExtractTitle(tree, selector) ==
    IF tree = <<>> \/ selector = <<>> THEN <<>>
    ELSE LET elements == Select(tree, {}, selector)
             Pick(e) == LET text == ParserCleanText(GetText(tree, e))
                        IN IF text # <<>> /\ Len(text) > 10 THEN <<text>>
                           ELSE <<>>
         IN FirstValue([k \in 1..Len(elements) |-> Pick(elements[k])])

\* HTMLParser._extract_content
ExtractContent(tree, selector) ==
    IF tree = <<>> \/ selector = <<>> THEN <<>>
    ELSE LET elements == Select(tree, {}, selector)
             texts == [k \in 1..Len(elements) |->
                          ParserCleanText(GetText(tree, elements[k]))]
         IN SelectSeq(texts,
                LAMBDA text : text # <<>> /\ Len(Split(text)) > 5)

\* HTMLParser._extract_author
ExtractAuthor(tree, selector) ==
    IF tree = <<>> \/ selector = <<>> THEN <<>>
    ELSE LET elements == Select(tree, {}, selector)
             Pick(e) == LET text == ParserCleanText(GetText(tree, e))
                        IN IF text # <<>> /\ Len(text) < 100 THEN <<text>>
                           ELSE <<>>
         IN FirstValue([k \in 1..Len(elements) |-> Pick(elements[k])])

\* The loop of HTMLParser._extract_date: the first element that has a
\* truthy datetime attribute or a non-empty text decides the result, parsed
\* or not.
RECURSIVE ExtractDateFrom(_, _)
ExtractDateFrom(tree, elements) ==
    IF elements = <<>> THEN <<>>
    ELSE LET Decide(datetime_attr, text) ==
                 IF Truthy(datetime_attr) \/ text # <<>>
                 THEN ParseDatetime(IF Truthy(datetime_attr)
                                    THEN datetime_attr[1] ELSE text)
                 ELSE ExtractDateFrom(tree, Tail(elements))
         IN Decide(tree[Head(elements)].datetime,
                   ParserCleanText(GetText(tree, Head(elements))))

\* HTMLParser._extract_date
ExtractDate(tree, selector) ==
    IF tree = <<>> \/ selector = <<>> THEN <<>>
    ELSE ExtractDateFrom(tree, Select(tree, {}, selector))

\* HTMLParser._extract_generic_title
ExtractGenericTitle(tree) ==
    LET generic_selectors ==
             << <<One(T("h1"))>>, <<One(C(<<"t", "i", "t", "l", "e">>))>>,
             <<One(C(<<"h", "e", "a", "d", "l", "i", "n", "e">>))>>, <<One(CSub(<<"t", "i", "t", "l", "e">>))>>,
             <<One(CSub(<<"h", "e", "a", "d", "l", "i", "n", "e">>))>> >>
        Extract(selector) == ExtractTitle(tree, selector)
    IN FirstValue([k \in 1..Len(generic_selectors) |->
                      Extract(generic_selectors[k])])

\* HTMLParser._extract_generic_content
ExtractGenericParagraphs(tree) ==
    LET generic_selectors ==
             << <<Alt(T("article"), T("p"))>>,
             <<Alt(C(<<"c", "o", "n", "t", "e", "n", "t">>), T("p"))>>,
             <<Alt(C(<<"a", "r", "t", "i", "c", "l", "e", "-", "b", "o", "d", "y">>), T("p"))>>,
             <<Alt(C(<<"s", "t", "o", "r", "y">>), T("p"))>>,
             <<Alt(T("main"), T("p"))>>, <<One(T("p"))>> >>
        Enough(paragraphs) == IF Len(paragraphs) > 2 THEN paragraphs ELSE <<>>
        Extract(selector) == Enough(ExtractContent(tree, selector))
    IN FirstValue([k \in 1..Len(generic_selectors) |->
                      Extract(generic_selectors[k])])

\* HTMLParser._extract_generic_author
ExtractGenericAuthor(tree) ==
    LET generic_selectors ==
             << <<One(C(<<"a", "u", "t", "h", "o", "r">>))>>, <<One(C(<<"b", "y", "l", "i", "n", "e">>))>>,
             <<One(C(<<"w", "r", "i", "t", "e", "r">>))>>, <<One(CSub(<<"a", "u", "t", "h", "o", "r">>))>>,
             <<One(CSub(<<"b", "y", "l", "i", "n", "e">>))>> >>
        Extract(selector) == ExtractAuthor(tree, selector)
    IN FirstValue([k \in 1..Len(generic_selectors) |->
                      Extract(generic_selectors[k])])

\* HTMLParser._extract_generic_date
ExtractGenericDate(tree) ==
    LET generic_selectors ==
             << <<One(T("time"))>>, <<One(C(<<"d", "a", "t", "e">>))>>,
             <<One(C(<<"p", "u", "b", "l", "i", "s", "h", "e", "d">>))>>, <<One(CSub(<<"d", "a", "t", "e">>))>>,
             <<One(CSub(<<"t", "i", "m", "e">>))>> >>
        Extract(selector) == ExtractDate(tree, selector)
    IN FirstValue([k \in 1..Len(generic_selectors) |->
                      Extract(generic_selectors[k])])

\* ------------------------------------------------------------ parse results
\* ParsedContent (parser.py:22-35); scores are in thousandths, content is
\* the text, paragraphs joined by "\n\n".
ParsedContent(title, content, author, date, wc, pcount, method, conf, raw, url) ==
    [title |-> title, content |-> content, author |-> author,
     publish_date |-> date, word_count |-> wc, paragraph_count |-> pcount,
     extraction_method |-> method, confidence_score |-> conf,
     raw_html |-> raw, url |-> url]

\* ParsedContent(url=..., raw_html=..., extraction_method=..., confidence_score=0.0)
EmptyParsedContent(method, raw, url) ==
    ParsedContent(<<>>, <<>>, <<>>, <<>>, 0, 0, method, 0, raw, url)

\* HTMLParser._calculate_confidence
CalculateConfidence(title, content, author, publish_date, word_count) ==
    LET score ==
            (IF title # <<>> /\ Len(title[1]) > 10 THEN 250 ELSE 0)
            + (IF content # <<>>
               THEN (IF word_count > 100 THEN 500
                     ELSE IF word_count > 50 THEN 300
                     ELSE IF word_count > 20 THEN 100 ELSE 0)
               ELSE 0)
            + (IF author # <<>> THEN 150 ELSE 0)
            + (IF publish_date # <<>> THEN 100 ELSE 0)
    IN IF score < 1000 THEN score ELSE 1000

\* HTMLParser._extract_with_site_config, reading self.soup = tree and
\* self.site_config = config (<<>> for None)
ExtractWithSiteConfig(tree, config, url, raw_html) ==
    IF tree = <<>> \/ config = <<>>
    THEN EmptyParsedContent(<<"no_config">>, raw_html, url)
    ELSE LET Result(title, content_paragraphs, content, author, publish_date,
                    word_count) ==
                 ParsedContent(title, content, author, publish_date, word_count,
                     Len(content_paragraphs),
                     <<"site_specific", config[1].domain>>,
                     CalculateConfidence(title, content, author, publish_date,
                                         word_count),
                     raw_html, url)
             Counted(title, content_paragraphs, content, author, publish_date) ==
                 Result(title, content_paragraphs, content, author, publish_date,
                        IF content # <<>> THEN Len(Split(content)) ELSE 0)
             Joined(title, content_paragraphs, author, publish_date) ==
                 Counted(title, content_paragraphs,
                         Join(<<NL, NL>>, content_paragraphs), author,
                         publish_date)
         IN Joined(ExtractTitle(tree, config[1].title_selector),
                      ExtractContent(tree, config[1].content_selector),
                      ExtractAuthor(tree, config[1].author_selector),
                      ExtractDate(tree, config[1].date_selector))

\* The loop over fallback_selectors (parser.py:173-177): the paragraphs and
\* the method name it ends with; it stops at the first selector giving more
\* than two paragraphs and otherwise keeps the last selector's paragraphs.
RECURSIVE FallbackLoop(_, _, _)
FallbackLoop(tree, selectors, paragraphs) ==
    IF selectors = <<>>
    THEN [paragraphs |-> paragraphs, method |-> <<"generic_fallback">>]
    ELSE LET found == ExtractContent(tree, Head(selectors))
         IN IF found # <<>> /\ Len(found) > 2
            THEN [paragraphs |-> found, method |-> <<"fallback", Head(selectors)>>]
            ELSE FallbackLoop(tree, Tail(selectors), found)

\* HTMLParser._extract_with_fallback
ExtractWithFallback(tree, config, url, raw_html) ==
    IF tree = <<>> \/ config = <<>>
    THEN EmptyParsedContent(<<"no_fallback">>, raw_html, url)
    ELSE LET Result(found, content, title, author, publish_date, word_count) ==
                 ParsedContent(title, content, author, publish_date, word_count,
                     Len(found.paragraphs), found.method,
                     (CalculateConfidence(title, content, author, publish_date,
                                          word_count) * 7) \div 10,
                     raw_html, url)
             Counted(found, content, title, author, publish_date) ==
                 Result(found, content, title, author, publish_date,
                        IF content # <<>> THEN Len(Split(content)) ELSE 0)
             Joined(found) ==
                 Counted(found, Join(<<NL, NL>>, found.paragraphs),
                         ExtractGenericTitle(tree), ExtractGenericAuthor(tree),
                         ExtractGenericDate(tree))
             Found(loop) ==
                 IF loop.paragraphs = <<>>
                 THEN [paragraphs |-> ExtractGenericParagraphs(tree),
                       method |-> <<"generic_extraction">>]
                 ELSE loop
         IN Joined(Found(FallbackLoop(tree, config[1].fallback_selectors,
                                         <<>>)))

\* a parse() that keeps the fallback result when it scores the same
BetterOfNotWorse(primary, fallback_result) ==
    IF fallback_result.confidence_score >= primary.confidence_score
    THEN fallback_result ELSE primary

\* parser.py:79-84: the fallback replaces the result if it scores higher
BetterOf(primary, fallback_result) ==
    IF fallback_result.confidence_score > primary.confidence_score
    THEN fallback_result ELSE primary

\* `not html or not html.strip()`
IsEmptyInput(h) == h.type = "NoneType" \/ IsBlank(h.text)

\* HTMLParser.parse run alone, from call to return
Parse(h, url) ==
    IF IsEmptyInput(h) THEN EmptyParsedContent(<<"empty_input">>, h, url)
    ELSE LET Result(tree, config, primary) ==
                 IF primary.confidence_score < 500
                 THEN BetterOf(primary, ExtractWithFallback(tree, config, url, h))
                 ELSE primary
             Passes(tree, config) ==
                 Result(tree, config, ExtractWithSiteConfig(tree, config, url, h))
         IN Passes(BuildTree(h.text),
                   <<GetSiteConfigByDomain(ExtractDomain(url))>>)

\* ------------------------------------------------------------ parser inputs
\* A URL is modelled by its network location.
Urls == {<<"w", "w", "w", ".", "t", "h", "e", "g", "u", "a", "r", "d", "i", "a", "n", ".", "c", "o", "m">>, <<"T", "i", "m", "e", "s", "O", "f", "I", "n", "d", "i", "a", ".", "I", "n", "d", "i", "a", "T", "i", "m", "e", "s", ".", "c", "o", "m">>, <<"e", "x", "a", "m", "p", "l", "e", ".", "c", "o", "m">>}

ParserHtmlInputs ==
    {HtmlNone, HtmlString(<<WS>>)}
    \cup {HtmlString(<<b>>) : b \in PageBlocks \cup {"short_p"}}

\* the block of each kind a page is made of, <<>> for none
Part(blocks) == {<<>>} \cup {<<b>> : b \in blocks}

\* Article pages put together from a headline, a body, an author and a date,
\* each present or not
MetadataPages ==
    {title \o body \o author \o date :
        title \in Part({"h1_headline", "h1_plain"}),
        body \in Part({"gu_body5", "gu_body10", "article5"}),
        author \in Part({"gu_author", "byline_div"}),
        date \in Part({"time_datetime"})}

MetadataInputs ==
    {HtmlNone, HtmlString(<<WS>>)} \cup {HtmlString(d) : d \in MetadataPages}

\* ------------------------------------------------ concurrent parse() calls
\* Threads call parse() on the one HTMLParser of a NewsScraper
\* (scraper.py:86, 124).  A thread is preempted only between the statements
\* of parse(); each of its calls to the _extract_* methods runs without
\* interruption.
SetThread(t, next_pc, r) ==
    threads' = [threads EXCEPT ![t].pc = next_pc, ![t].result = r]

\* parser.py:62-68: the call, with an html of `inputs`, and its empty-input
\* return
ParseCallOn(t, inputs) ==
    /\ threads[t].pc = "idle"
    /\ \E h \in inputs, u \in Urls :
          threads' = [threads EXCEPT ![t] =
              IF IsEmptyInput(h)
              THEN [pc |-> "done", html |-> h, url |-> u,
                    result |-> <<EmptyParsedContent(<<"empty_input">>, h, u)>>,
                    fallback_result |-> <<>>]
              ELSE [pc |-> "soup", html |-> h, url |-> u, result |-> <<>>,
                    fallback_result |-> <<>>]]
    /\ UNCHANGED <<parser_soup, parser_site_config>>
    /\ UNCHANGED <<evars, probe, svars>>

ParseCall(t) == ParseCallOn(t, ParserHtmlInputs)

\* parser.py:71  self.soup = BeautifulSoup(html, 'html.parser')
ParseSoup(t) ==
    /\ threads[t].pc = "soup"
    /\ parser_soup' = BuildTree(threads[t].html.text)
    /\ SetThread(t, "config", <<>>)
    /\ UNCHANGED parser_site_config
    /\ UNCHANGED <<evars, probe, svars>>

\* parser.py:74-75  self.site_config = get_site_config_by_domain(domain)
ParseConfig(t) ==
    /\ threads[t].pc = "config"
    /\ parser_site_config' = <<GetSiteConfigByDomain(ExtractDomain(threads[t].url))>>
    /\ SetThread(t, "primary", <<>>)
    /\ UNCHANGED parser_soup
    /\ UNCHANGED <<evars, probe, svars>>

\* parser.py:77  result = self._extract_with_site_config(url, html)
ParsePrimary(t) ==
    /\ threads[t].pc = "primary"
    /\ LET r == ExtractWithSiteConfig(parser_soup, parser_site_config,
                                      threads[t].url, threads[t].html)
       IN SetThread(t, IF r.confidence_score < 500 THEN "fallback" ELSE "done",
                    <<r>>)
    /\ UNCHANGED <<parser_soup, parser_site_config>>
    /\ UNCHANGED <<evars, probe, svars>>

\* parser.py:80-86  the fallback, and the return
ParseFallback(t) ==
    /\ threads[t].pc = "fallback"
    /\ LET fallback_result ==
               ExtractWithFallback(parser_soup, parser_site_config,
                                   threads[t].url, threads[t].html)
       IN threads' = [threads EXCEPT
              ![t].pc = "done",
              ![t].result = <<BetterOf(threads[t].result[1], fallback_result)>>,
              ![t].fallback_result = <<fallback_result>>]
    /\ UNCHANGED <<parser_soup, parser_site_config>>
    /\ UNCHANGED <<evars, probe, svars>>

NextConc ==
    \E t \in Threads :
       \/ ParseCall(t)
       \/ ParseSoup(t)
       \/ ParseConfig(t)
       \/ ParsePrimary(t)
       \/ ParseFallback(t)

SpecConc == Init /\ [][NextConc]_vars

\* C7: when a parse() call has returned, its result is the result the same
\* call gives when it runs alone.
C7_ConcurrentIsolation ==
    \A t \in Threads :
       threads[t].pc = "done" =>
          threads[t].result = <<Parse(threads[t].html, threads[t].url)>>

\* the words of the strings inside element e of the document, as written
ElementWords(tree, e) ==
    LET strings == SelectSeq(Descendants(tree, {}, e),
                             LAMBDA i : tree[i].kind = "text")
    IN Words(Flatten([k \in 1..Len(strings) |-> tree[strings[k]].words]))

\* The document of claim C11: exactly one article, holding exactly five
\* paragraphs of more than 10 words each and no boilerplate element; every
\* other text of the document lies inside boilerplate elements.
CleanArticleDocument(tree) ==
    LET articles == FindAll(tree, {}, "article")
        paragraphs == FindAllIn(tree, {}, articles[1], "p")
    IN /\ Len(articles) = 1
       /\ Len(paragraphs) = 5
       /\ \A k \in 1..5 :
             Len(ElementWords(tree, paragraphs[k])) > 10
       /\ \A n \in 1..Len(tree) :
             IsDescendant(tree, {}, n, articles[1]) =>
                /\ ~MarkedBoilerplate(tree[n])
                /\ tree[n].kind = "text" => tree[tree[n].parent].name = "p"
       /\ \A n \in 1..Len(tree) :
             (tree[n].kind = "text" /\ ~IsDescendant(tree, {}, n, articles[1]))
                => InsideBoilerplate(tree, n)
       /\ SentenceSegments(DocumentWords(tree)) > 3

\* the words of the k-th paragraph of the article
ParagraphWords(tree, k) ==
    ElementWords(tree, FindAllIn(tree, {}, FindAll(tree, {}, "article")[1], "p")[k])

MaxWords == 201
MaxSentenceEnds == 6
MaxParagraphBreaks == 3

\* a text of n words, the first s of them ending a sentence and a paragraph
\* break after each of the first p words
ScoredText(n, s, p) ==
    LET breaks == IF n = 0 THEN 0 ELSE IF p < n THEN p ELSE n - 1
        Word(i) == IF i <= s THEN "word." ELSE "word"
    IN [j \in 1..(n + breaks) |->
          IF j <= 2 * breaks
          THEN (IF j % 2 = 1 THEN Word((j + 1) \div 2) ELSE PARA)
          ELSE Word(j - breaks)]

ScoredTexts ==
    {ScoredText(n, s, p) : n \in 0..MaxWords, s \in 0..MaxSentenceEnds,
                           p \in 0..MaxParagraphBreaks}

\* the engine is idle and no function has been evaluated
Idle ==
    /\ pc = "idle"
    /\ \A t \in Threads : threads[t].pc = "idle"
    /\ probe = NoProbe

\* _calculate_confidence_score(content, method) for the three methods
ScoreContent ==
    /\ Idle
    /\ \E content \in ScoredTexts :
          probe' = [op |-> "confidence", content |-> content,
                    site_specific |->
                        CalculateConfidenceScore(content, "site_specific"),
                    readability |->
                        CalculateConfidenceScore(content, "readability"),
                    generic_fallback |->
                        CalculateConfidenceScore(content, "generic_fallback")]
    /\ UNCHANGED <<evars, pvars, svars>>

NextScore == ScoreContent

SpecScore == Init /\ [][NextScore]_vars

\* C12: for the same content the confidence of "site_specific" is at least
\* that of "readability", which is at least that of "generic_fallback", the
\* clamp to [0, 1] included.
C12_ConfidenceOrdering ==
    probe.op = "confidence" =>
       /\ probe.site_specific >= probe.readability
       /\ probe.readability >= probe.generic_fallback

\* a text for which the clamp makes two methods equal
C12_Witness ==
    /\ probe.op = "confidence"
    /\ probe.site_specific = 10 /\ probe.readability = 10
    /\ probe.generic_fallback = 8

\* C13: None gives an "error" result of type NULL_INPUT, a non-string an
\* "error" result of type INVALID_INPUT_TYPE, an empty or whitespace-only
\* string an "empty_input" result; and every "error" or "empty_input" result
\* has clean_text "", word_count 0, paragraph_count 0, confidence 0.0 and
\* non-empty error_details.
C13_InputErrorsAreData ==
    Returned =>
       /\ html.type = "NoneType" =>
             /\ result.extraction_method = "error"
             /\ result.error_type = "NULL_INPUT"
       /\ html.type \notin {"NoneType", "str"} =>
             /\ result.extraction_method = "error"
             /\ result.error_type = "INVALID_INPUT_TYPE"
       /\ (html.type = "str" /\ IsBlank(html.text)) =>
             result.extraction_method = "empty_input"
       /\ result.extraction_method \in {"error", "empty_input"} =>
             /\ result.clean_text = <<>>
             /\ result.word_count = 0
             /\ result.paragraph_count = 0
             /\ result.confidence_score = 0
             /\ result.error_type # "" \/ result.warning # ""

\* a non-string input answered by an error result
C13_Witness ==
    /\ Returned
    /\ html = HtmlNonString
    /\ result.extraction_method = "error"
    /\ result.error_type = "INVALID_INPUT_TYPE"


\* ---------------------------------------------------------------------------
\* _safe_parse_html and its use by extract_content

\* the parse step of the current call has run
Parsed == probe.op = "safe_parse"

\* the parsers the loop tried come in the order of `parsers`, and the one
\* accepted is the first whose tree has an element or some text; its tree is
\* the soup of the call
BackendsInOrder ==
    LET a == probe.attempts
    IN /\ Len(a) <= Len(parsers) + 1
       /\ \A k \in 1..Len(a) :
             /\ k <= Len(parsers) => a[k].parser = parsers[k]
             /\ k < Len(a) => a[k].outcome \in {"raised", "rejected"}
             /\ a[k].outcome = "accepted" =>
                   /\ ParseIsValid(TreeOf(a[k].built, html.text))
                   /\ soup = TreeOf(a[k].built, html.text)
             /\ a[k].outcome = "rejected" =>
                   ~ParseIsValid(TreeOf(a[k].built, html.text))

NoBackendAccepted ==
    \A k \in 1..Len(probe.attempts) : probe.attempts[k].outcome # "accepted"

ParseErrorReturned ==
    /\ Returned
    /\ soup = <<>>
    /\ result.extraction_method = "error"
    /\ result.error_type = "HTML_PARSE_ERROR"
    /\ result.confidence_score = 0

\* C14 as stated: _safe_parse_html tries html.parser, lxml, html5lib in that
\* order and accepts the first that yields an element or some text; when none
\* of them does it returns None and extract_content returns the
\* HTML_PARSE_ERROR result with confidence 0.0.
C14_NoBackendIsParseError ==
    Parsed => /\ BackendsInOrder
              /\ NoBackendAccepted => ParseErrorReturned

\* C14: _safe_parse_html tries html.parser, lxml, html5lib in that order and
\* accepts the first that yields an element or some text; when none of them
\* does, html.parser is run once more and its tree is used without that test,
\* and only when this last parse raises does extract_content return the
\* HTML_PARSE_ERROR result with confidence 0.0.
C14_LastParseUnvalidated ==
    Parsed =>
       /\ BackendsInOrder
       /\ NoBackendAccepted =>
             LET last == probe.attempts[Len(probe.attempts)]
             IN /\ Len(probe.attempts) = Len(parsers) + 1
                /\ last.outcome = "raised" => ParseErrorReturned
                /\ last.outcome = "returned" =>
                      /\ soup = BuildTree(html.text)
                      /\ ~(Returned /\ result.error_type = "HTML_PARSE_ERROR")

\* a document holding only a comment, no backend accepted: the call went on
\* with the tree of the last parse and returned an empty generic result
C14_Witness ==
    /\ Parsed
    /\ NoBackendAccepted
    /\ html = HtmlString(<<"bare_comment">>)
    /\ Returned
    /\ result.extraction_method = "generic_fallback"
    /\ result.clean_text = <<>>


\* ---------------------------------------------------------------------------
\* The confidence of returned results

\* HTMLParser.parse(html, url) on an instance no other call uses: the two
\* passes and the result returned
ParseAlone ==
    /\ Idle
    /\ \E h \in ParserHtmlInputs, url \in Urls :
          probe' = [op |-> "parse", html |-> h, url |-> url,
                    result |-> Parse(h, url)]
    /\ UNCHANGED <<evars, pvars, svars>>

\* one extract_content call in which sub-steps may raise, or one evaluation
\* of _calculate_confidence_score, or one parse() call
NextReturned ==
    \/ probe.op \notin {"confidence", "parse"} /\ NextFault
    \/ faulty = {} /\ ScoreContent
    \/ faulty = {} /\ ParseAlone

SpecReturned == InitFault /\ [][NextReturned]_vars

\* C15: every result extract_content returns has a confidence_score in
\* [0.0, 1.0], _calculate_confidence_score is in [0.0, 1.0] for every method
\* and content (the sum 0.8+0.2+0.1+0.1 and the difference 0.4-0.2 among
\* them), and every result parse() returns has a confidence_score in
\* [0.0, 1.0].
C15_ConfidenceInRange ==
    /\ Returned => result.confidence_score \in 0..10
    /\ probe.op = "confidence" =>
          /\ probe.site_specific \in 0..10
          /\ probe.readability \in 0..10
          /\ probe.generic_fallback \in 0..10
    /\ probe.op = "parse" => probe.result.confidence_score \in 0..1000

\* a site-specific content whose bonuses add up to 1.2, scored 1.0
C15_Witness ==
    /\ probe.op = "confidence"
    /\ Len(Words(probe.content)) > 200
    /\ SentenceSegments(probe.content) > 5
    /\ Len(SplitPara(probe.content, <<>>)) > 2
    /\ probe.site_specific = 10


\* ---------------------------------------------------------------------------
\* get_site_config_by_domain

\* the most "www." prefixes a looked-up domain starts with
MaxWww == 2

UpperChar(c) ==
    IF \E k \in 1..26 : LowerAlphabet[k] = c
    THEN UpperAlphabet[CHOOSE k \in 1..26 : LowerAlphabet[k] = c]
    ELSE c

\* a string as written, in capitals, or with a capital first letter
Cased(s, casing) ==
    CASE casing = "upper" -> [k \in 1..Len(s) |-> UpperChar(s[k])]
      [] casing = "title" -> [k \in 1..Len(s) |-> IF k = 1 THEN UpperChar(s[k]) ELSE s[k]]
      [] OTHER -> s

Casings == {"lower", "upper", "title"}

\* the names behind the prefixes: the registered ones, the wildcard key, an
\* unregistered one, a name that only starts like a prefix, the empty string
DomainNames ==
    {<<"t", "h", "e", "g", "u", "a", "r", "d", "i", "a", "n", ".", "c", "o", "m">>, <<"t", "i", "m", "e", "s", "o", "f", "i", "n", "d", "i", "a", ".", "i", "n", "d", "i", "a", "t", "i", "m", "e", "s", ".", "c", "o", "m">>, <<"*">>,
     <<"e", "x", "a", "m", "p", "l", "e", ".", "c", "o", "m">>, <<"w", "w", "w", "n", "e", "w", "s", ".", "c", "o", "m">>, <<"t", "h", "e", "g", "u", "a", "r", "d", "i", "a", "n", ".", "c", "o", "m", ".", "a", "u">>, <<>>}

RECURSIVE WwwPrefixes(_)
WwwPrefixes(n) ==
    IF n = 0 THEN {<<>>}
    ELSE LET shorter == WwwPrefixes(n - 1)
         IN shorter \cup {Cased(<<"w", "w", "w", ".">>, c) \o p : c \in Casings,
                          p \in {q \in shorter : Len(q) = 4 * (n - 1)}}

Domains ==
    {p \o Cased(name, c) : p \in WwwPrefixes(MaxWww), name \in DomainNames,
                           c \in Casings}

\* get_site_config_by_domain(d) and get_site_config_by_domain("www." + d)
LookupDomain ==
    /\ Idle
    /\ \E d \in Domains :
          probe' = [op |-> "lookup", domain |-> d,
                    config |-> <<GetSiteConfigByDomain(d)>>,
                    www_config |-> <<GetSiteConfigByDomain(<<"w", "w", "w", ".">> \o d)>>]
    /\ UNCHANGED <<evars, pvars, svars>>

NextLookup == LookupDomain

SpecLookup == Init /\ [][NextLookup]_vars

\* the registry entry of the lower-cased name without one leading "www.",
\* else of "www." + that name, else of "*"
LookupOrder(d) ==
    LET name == IF StartsWith(Lower(d), <<"w", "w", "w", ".">>)
                THEN SubSeq(Lower(d), 5, Len(d)) ELSE Lower(d)
    IN IF name \in SITE_CONFIG_KEYS THEN SITE_CONFIGS(name)
       ELSE IF <<"w", "w", "w", ".">> \o name \in SITE_CONFIG_KEYS THEN SITE_CONFIGS(<<"w", "w", "w", ".">> \o name)
       ELSE SITE_CONFIGS(<<"*">>)

LookupIsTotal ==
    /\ probe.config = <<LookupOrder(probe.domain)>>
    /\ probe.config[1] \in {GUARDIAN_CONFIG, TIMES_OF_INDIA_CONFIG, GENERIC_CONFIG}

\* C16 as stated: the lookup lower-cases d, strips a leading "www.", returns
\* the registry entry of that name, else of "www." + that name, else the "*"
\* profile, never None; and d and "www." + d always resolve to the same
\* profile.
C16_WwwInsensitive ==
    probe.op = "lookup" =>
       /\ LookupIsTotal
       /\ probe.www_config = probe.config

\* C16: the lookup lower-cases d, strips one leading "www.", returns the
\* registry entry of that name, else of "www." + that name, else the "*"
\* profile, never None; d and "www." + d resolve to the same profile unless
\* d, lower-cased, is "www.www." followed by a registered name, which
\* resolves to that name's profile while "www." + d resolves to "*".
C16_OneWwwStripped ==
    probe.op = "lookup" =>
       /\ LookupIsTotal
       /\ IF Lower(probe.domain) \in {<<"w", "w", "w", ".", "w", "w", "w", ".", "t", "h", "e", "g", "u", "a", "r", "d", "i", "a", "n", ".", "c", "o", "m">>,
                                      <<"w", "w", "w", ".", "w", "w", "w", ".", "t", "i", "m", "e", "s", "o", "f", "i", "n", "d", "i", "a", ".", "i", "n", "d", "i", "a", "t", "i", "m", "e", "s", ".", "c", "o", "m">>}
          THEN /\ probe.config[1] # GENERIC_CONFIG
               /\ probe.www_config = <<GENERIC_CONFIG>>
          ELSE probe.www_config = probe.config

\* "WWW.TheGuardian.com"-like spellings resolve to the Guardian profile, with
\* and without one more "www."
C16_Witness ==
    /\ probe.op = "lookup"
    /\ probe.domain = <<"W", "W", "W", ".", "T", "h", "e", "g", "u", "a", "r", "d", "i", "a", "n", ".", "c", "o", "m">>
    /\ probe.config = <<GUARDIAN_CONFIG>>
    /\ probe.www_config = <<GUARDIAN_CONFIG>>


\* ---------------------------------------------------------------------------
\* The two passes of HTMLParser.parse

\* one parse() call of thread 1 on an HTMLParser no other thread uses
NextParse ==
    \/ ParseCallOn(1, MetadataInputs)
    \/ ParseSoup(1)
    \/ ParseConfig(1)
    \/ ParsePrimary(1)
    \/ ParseFallback(1)

SpecParse == Init /\ [][NextParse]_vars

\* thread 1 has returned from the passes of parse()
PassesDone ==
    /\ threads[1].pc = "done"
    /\ threads[1].result[1].extraction_method # <<"empty_input">>

\* what the primary pass of thread 1's call returned
PrimaryResult ==
    ExtractWithSiteConfig(parser_soup, parser_site_config, threads[1].url,
                          threads[1].html)

\* the call returned the result of its fallback pass
FallbackReturned ==
    /\ PassesDone
    /\ threads[1].fallback_result # <<>>
    /\ threads[1].result = threads[1].fallback_result
    /\ threads[1].result # <<PrimaryResult>>

\* C17: parse() runs the fallback pass if and only if the primary pass has
\* confidence below 0.5; the fallback result's confidence is 0.7 times the
\* confidence composed from its fields; the fallback result is returned only
\* if its confidence is strictly greater than the primary's, otherwise the
\* primary result; so the returned confidence is never below the primary's
\* and never above 0.7 for a fallback result.
C17_TwoPass ==
    /\ threads[1].pc = "fallback" => threads[1].result[1].confidence_score < 500
    /\ PassesDone =>
          LET primary == PrimaryResult
              returned == threads[1].result[1]
          IN /\ threads[1].fallback_result # <<>> <=> primary.confidence_score < 500
             /\ threads[1].fallback_result = <<>> => returned = primary
             /\ threads[1].fallback_result # <<>> =>
                   LET f == threads[1].fallback_result[1]
                   IN /\ 10 * f.confidence_score =
                            7 * CalculateConfidence(f.title, f.content, f.author,
                                                    f.publish_date, f.word_count)
                      /\ returned = IF f.confidence_score > primary.confidence_score
                                    THEN f ELSE primary
             /\ returned.confidence_score >= primary.confidence_score
             /\ FallbackReturned => returned.confidence_score <= 700

\* both passes scored 0.35 (headline and date; headline, byline and date
\* times 0.7) and the primary result was returned
C17_Witness ==
    /\ PassesDone
    /\ threads[1].fallback_result # <<>>
    /\ threads[1].fallback_result[1].confidence_score = 350
    /\ PrimaryResult.confidence_score = 350
    /\ threads[1].result = <<PrimaryResult>>
    /\ threads[1].result # threads[1].fallback_result


\* C18: whenever the profile's title_selector finds no plausible title and
\* the generic title selectors find one, parse() has run the generic pass and
\* the returned result carries that title, with a confidence contribution
\* (0.25 times 0.7) below the 0.25 of a title found by the profile's
\* selector, whatever the primary pass scored for content, author and date.
C18_TitleFallback ==
    PassesDone =>
       LET site_title == ExtractTitle(parser_soup, parser_site_config[1].title_selector)
           generic_title == ExtractGenericTitle(parser_soup)
       IN (site_title = <<>> /\ generic_title # <<>>) =>
             /\ threads[1].fallback_result # <<>>
             /\ threads[1].result[1].title = generic_title
             /\ threads[1].result = threads[1].fallback_result
             /\ (250 * 7) \div 10 < 250


\* ---------------------------------------------------------------------------
\* HTTPFetcher.fetch

\* the largest max_retries a fetcher is built with
MaxRetries == 2

\* A URL string: the scheme as written before "://" (<<>> when the string
\* has no "://"), the network location and the rest.  None has type
\* "NoneType".
Url(scheme, netloc, path) ==
    [type |-> "str", scheme |-> scheme, netloc |-> netloc, path |-> path]

UrlNone == [type |-> "NoneType", scheme |-> <<>>, netloc |-> <<>>, path |-> <<>>]

FetchUrls ==
    {UrlNone,
     Url(<<>>, <<>>, <<>>),
     Url(<<"h", "t", "t", "p", "s">>, <<"w", "w", "w", ".", "t", "h", "e", "g", "u", "a", "r", "d", "i", "a", "n", ".", "c", "o", "m">>, <<"/", "a">>),
     Url(<<"h", "t", "t", "p">>, <<"e", "x", "a", "m", "p", "l", "e", ".", "c", "o", "m">>, <<"/", "a">>),
     Url(<<"H", "T", "T", "P">>, <<"e", "x", "a", "m", "p", "l", "e", ".", "c", "o", "m">>, <<"/", "a">>),
     Url(<<"f", "t", "p">>, <<"e", "x", "a", "m", "p", "l", "e", ".", "c", "o", "m">>, <<"/", "a">>),
     Url(<<"h", "t", "t", "p", "s">>, <<>>, <<>>),
     Url(<<>>, <<>>, <<"e", "x", "a", "m", "p", "l", "e", ".", "c", "o", "m", "/", "a">>)}

\* fetcher.py:159  url and url.startswith(('http://', 'https://'))
IsFetchableUrl(url) ==
    /\ url.type = "str"
    /\ url.scheme \in {<<"h", "t", "t", "p">>, <<"h", "t", "t", "p", "s">>}

\* FetchResult; content is the markup of the body, <<>> for ""
FetchResult(url, content, status_code, fetch_time_ms, attempts, success, error_message) ==
    [url |-> url, content |-> content, status_code |-> status_code,
     fetch_time_ms |-> fetch_time_ms, attempts |-> attempts,
     success |-> success, error_message |-> error_message]

\* What one session.get(url) does: a response with a status code, or an
\* exception of requests
Response(status) == [kind |-> "response", status |-> status, exc |-> ""]
Raises(exc) == [kind |-> "raise", status |-> 0, exc |-> exc]

RequestOutcomes ==
    {Response(n) : n \in {200, 204, 403, 404, 429, 500, 503}}
    \cup {Raises(e) : e \in {"Timeout", "ConnectionError", "TooManyRedirects",
                             "RequestException", "Exception"}}

\* the bodies of a 200 response
ResponseBodies == {<<>>, <<"guardian_page">>, <<"short_p">>}

\* response.url: the URL asked for, or the one it redirects to
FinalUrls(url) == {url, Url(<<"h", "t", "t", "p", "s">>, <<"w", "w", "w", ".", "t", "h", "e", "g", "u", "a", "r", "d", "i", "a", "n", ".", "c", "o", "m">>, <<"/", "b">>)}

\* elapsed milliseconds
FetchTimes == {0, 7}

\* fetcher.py:236-243 and the except clauses: last_error
LastError(o) ==
    CASE o.kind = "response" /\ o.status = 403 ->
            "Access forbidden (403) - possible bot detection"
      [] o.kind = "response" /\ o.status = 404 -> "Page not found (404)"
      [] o.kind = "response" /\ o.status = 429 ->
            "Rate limited (429) - too many requests"
      [] o.kind = "response" /\ o.status \notin {403, 404, 429} -> "HTTP status: reason"
      [] o.exc = "Timeout" -> "Request timeout after connect, read"
      [] o.exc = "ConnectionError" -> "Connection error - unable to reach server"
      [] o.exc = "TooManyRedirects" -> "Too many redirects"
      [] o.exc = "RequestException" -> "Request failed: "
      [] OTHER -> "Unexpected error: "

\* fetcher.py:255-256 and 286: the outcomes after which the loop breaks
EndsLoop(o) ==
    \/ o.kind = "response" /\ 400 <= o.status /\ o.status < 500 /\ o.status # 429
    \/ o.exc = "TooManyRedirects"

\* fetcher.py:151-172: fetch(url) on HTTPFetcher(max_retries = m), up to the
\* loop; `requests` counts the session.get calls and `seen` lists their
\* outcomes
FetchStart(url, m) ==
    IF IsFetchableUrl(url)
    THEN [pc |-> "request", url |-> url, max_retries |-> m, attempt |-> 0,
          attempts |-> 0, last_error |-> "", requests |-> 0, seen |-> <<>>,
          result |-> <<>>]
    ELSE [pc |-> "done", url |-> url, max_retries |-> m, attempt |-> 0,
          attempts |-> 0, last_error |-> "", requests |-> 0, seen |-> <<>>,
          result |-> <<FetchResult(url, <<>>, 0, 0, 1, FALSE,
                                   "Invalid URL format")>>]

\* fetcher.py:173-327: one pass of the loop, with the return that follows
\* when the pass is the last
FetchAttempt(f, o, body, final, ms) ==
    LET attempts == f.attempt + 1
        made == [f EXCEPT !.attempts = attempts, !.requests = @ + 1,
                          !.seen = Append(@, o)]
    IN IF o.kind = "response" /\ o.status = 200
       THEN [made EXCEPT !.pc = "done",
                         !.result = <<FetchResult(final, body, 200, ms, attempts,
                                                  TRUE, "")>>]
       ELSE IF EndsLoop(o) \/ f.attempt + 1 > f.max_retries
       THEN [made EXCEPT !.pc = "done", !.last_error = LastError(o),
                         !.result = <<FetchResult(f.url, <<>>, 0, ms, attempts,
                                                  FALSE, LastError(o))>>]
       ELSE [made EXCEPT !.attempt = @ + 1, !.last_error = LastError(o)]

\* fetch(url) is called
FetchCall ==
    /\ fetcher.pc = "idle"
    /\ scraper.pc = "idle"
    /\ \E url \in FetchUrls, m \in 0..MaxRetries : fetcher' = FetchStart(url, m)
    /\ UNCHANGED <<evars, pvars, probe, scraper, handler>>

\* one session.get of the running fetch
FetchRequest ==
    /\ fetcher.pc = "request"
    /\ \E o \in RequestOutcomes, body \in ResponseBodies,
          final \in FinalUrls(fetcher.url), ms \in FetchTimes :
          fetcher' = FetchAttempt(fetcher, o, body, final, ms)
    /\ UNCHANGED <<evars, pvars, probe, scraper, handler>>

NextFetch == FetchCall \/ FetchRequest

SpecFetch == Init /\ [][NextFetch]_vars

\* the outcomes after which fetch() asks again while attempts remain
Retried(o) == ~(o.kind = "response" /\ o.status = 200) /\ ~EndsLoop(o)

\* the requests made so far were each followed by another only after an
\* outcome that is retried, and are at most max_retries + 1
FetchLoopBounded ==
    /\ fetcher.requests = Len(fetcher.seen)
    /\ fetcher.requests <= fetcher.max_retries + 1
    /\ \A k \in 1..Len(fetcher.seen) - 1 : Retried(fetcher.seen[k])
    /\ fetcher.pc = "request" =>
          /\ fetcher.requests <= fetcher.max_retries
          /\ \A k \in 1..Len(fetcher.seen) : Retried(fetcher.seen[k])
    /\ (fetcher.pc = "done" /\ fetcher.seen # <<>>
        /\ Retried(fetcher.seen[Len(fetcher.seen)])) =>
          fetcher.requests = fetcher.max_retries + 1

FetchSuccessIs200 ==
    (fetcher.pc = "done" /\ fetcher.result[1].success) =>
       /\ fetcher.seen # <<>>
       /\ fetcher.seen[Len(fetcher.seen)] = Response(200)
       /\ fetcher.result[1].status_code = 200

FetchFailureFields ==
    (fetcher.pc = "done" /\ ~fetcher.result[1].success) =>
       /\ fetcher.result[1].content = <<>>
       /\ fetcher.result[1].status_code = 0
       /\ fetcher.result[1].error_message # ""

FetchFailureAttempts ==
    (fetcher.pc = "done" /\ ~fetcher.result[1].success) =>
       fetcher.result[1].attempts = fetcher.requests

\* C20: fetch() makes at most max_retries + 1 requests, none after a 200, a
\* 4xx other than 429 or a redirect loop, and another one after a timeout, a
\* connection error, a 429 or a 5xx while attempts remain; it returns
\* success=True only for a 200; every failed result has content "",
\* status_code 0, a non-empty error_message and attempts equal to the number
\* of requests made.
C20_FetchRetries ==
    fetcher.pc # "idle" =>
       /\ FetchLoopBounded
       /\ FetchSuccessIs200
       /\ FetchFailureFields
       /\ FetchFailureAttempts


\* ---------------------------------------------------------------------------
\* NewsScraper.scrape_article

\* scraper.py:212-221  _is_valid_url; urlparse lower-cases the scheme
IsValidUrl(url) ==
    /\ url.type = "str"
    /\ Lower(url.scheme) \in {<<"h", "t", "t", "p">>, <<"h", "t", "t", "p", "s">>}
    /\ url.netloc # <<>>

\* ScrapedContent; raw_html and scrape_timestamp are left out
ScrapedContent(url, parsed, clean_content, word_count, paragraph_count, fetch_time_ms, fetch_attempts, success, error_message, removed, extraction_confidence) ==
    [url |-> url, title |-> parsed.title, content |-> parsed.content,
     clean_content |-> clean_content, author |-> parsed.author,
     publish_date |-> parsed.publish_date, word_count |-> word_count,
     paragraph_count |-> paragraph_count,
     extraction_method |-> parsed.extraction_method,
     confidence_score |-> parsed.confidence_score,
     fetch_time_ms |-> fetch_time_ms, fetch_attempts |-> fetch_attempts,
     success |-> success, error_message |-> error_message,
     removed_elements |-> removed,
     extraction_confidence |-> extraction_confidence]

\* the fields a ScrapedContent has when they are not given
ScrapedDefaults == EmptyParsedContent(<<"unknown">>, HtmlString(<<>>), <<>>)

\* scraper.py:102-106 and 112-118: the results with success=False
FailedScrape(url, fetch_time_ms, fetch_attempts, error_message) ==
    ScrapedContent(url, ScrapedDefaults, <<>>, 0, 0, fetch_time_ms,
                   fetch_attempts, FALSE, error_message, <<>>, 0)

\* What self.extractor.extract_content(...) does for the scraper: it raises
\* (<<>>), or it returns an ExtractedContent: an error result, the
\* empty-input result, or a text.
ExtractorOutcomes ==
    {<<>>,
     <<CreateErrorResult("EXTRACTION_FAILED")>>,
     <<EmptyInputResult>>,
     <<CreateResult(Sent(6) \o Sent(6), "generic_fallback",
                    <<Entry("tag", "nav")>>)>>}

\* a scrape_article that takes the counts from the parser in every case
CombineParserCounts(fetch_result, parsed, extracted) ==
    ScrapedContent(fetch_result.url, parsed,
                   IF extracted = <<>> THEN <<>> ELSE extracted[1].clean_text,
                   parsed.word_count, parsed.paragraph_count,
                   fetch_result.fetch_time_ms, fetch_result.attempts, TRUE, "",
                   IF extracted = <<>> THEN <<>> ELSE extracted[1].removed_elements,
                   IF extracted = <<>> THEN 0 ELSE extracted[1].confidence_score)

\* scraper.py:142-176: the result with success=True; extracted is <<>> when
\* extract_content raised
Combine(fetch_result, parsed, extracted) ==
    ScrapedContent(fetch_result.url, parsed,
                   IF extracted = <<>> THEN <<>> ELSE extracted[1].clean_text,
                   IF extracted = <<>> THEN parsed.word_count
                   ELSE extracted[1].word_count,
                   IF extracted = <<>> THEN parsed.paragraph_count
                   ELSE extracted[1].paragraph_count,
                   fetch_result.fetch_time_ms, fetch_result.attempts, TRUE, "",
                   IF extracted = <<>> THEN <<>> ELSE extracted[1].removed_elements,
                   IF extracted = <<>> THEN 0 ELSE extracted[1].confidence_score)

\* scraper.py:101-110: scrape_article(url) on NewsScraper(max_retries = m),
\* up to the call of fetch
ScrapeCall ==
    /\ scraper.pc = "idle"
    /\ fetcher.pc = "idle"
    /\ \E url \in FetchUrls, m \in 0..MaxRetries :
          IF IsValidUrl(url)
          THEN /\ scraper' = [pc |-> "fetch", url |-> url, parsed_content |-> <<>>,
                              extracted_content |-> <<>>, result |-> <<>>]
               /\ fetcher' = FetchStart(url, m)
          ELSE /\ scraper' = [pc |-> "done", url |-> url, parsed_content |-> <<>>,
                              extracted_content |-> <<>>,
                              result |-> <<FailedScrape(url, 0, 1,
                                                        "Invalid URL format")>>]
               /\ UNCHANGED fetcher
    /\ UNCHANGED <<evars, pvars, probe, handler>>

\* scraper.py:110-122: fetch has returned; the failed result, or the parse
ScrapeFetched ==
    /\ scraper.pc = "fetch"
    /\ fetcher.pc = "done"
    /\ LET fetch_result == fetcher.result[1]
           content == HtmlString(fetch_result.content)
       IN IF ~fetch_result.success
          THEN /\ scraper' = [scraper EXCEPT !.pc = "done",
                     !.result = <<FailedScrape(scraper.url,
                                     fetch_result.fetch_time_ms,
                                     fetch_result.attempts,
                                     "Fetch failed: " \o fetch_result.error_message)>>]
               /\ UNCHANGED <<parser_soup, parser_site_config>>
          ELSE /\ scraper' = [scraper EXCEPT !.pc = "extract",
                     !.parsed_content =
                         <<Parse(content, fetch_result.url.netloc)>>]
               /\ IF IsEmptyInput(content)
                  THEN UNCHANGED <<parser_soup, parser_site_config>>
                  ELSE /\ parser_soup' = BuildTree(content.text)
                       /\ parser_site_config' =
                             <<GetSiteConfigByDomain(
                                   ExtractDomain(fetch_result.url.netloc))>>
    /\ UNCHANGED <<evars, threads, probe, fetcher, handler>>

\* scraper.py:124-176: extract_content returns or raises, and the result
ScrapeExtract ==
    /\ scraper.pc = "extract"
    /\ \E extracted \in ExtractorOutcomes :
          scraper' = [scraper EXCEPT !.pc = "done",
                         !.extracted_content = extracted,
                         !.result = <<Combine(fetcher.result[1],
                                              scraper.parsed_content[1],
                                              extracted)>>]
    /\ UNCHANGED <<evars, pvars, probe, fetcher, handler>>

NextScrape == ScrapeCall \/ FetchRequest \/ ScrapeFetched \/ ScrapeExtract

SpecScrape == Init /\ [][NextScrape]_vars

\* the fetch of the scrape_article call returned success=True
FetchSucceeded == fetcher.pc = "done" /\ fetcher.result[1].success

\* C19: scrape_article returns success=True if and only if the URL is a valid
\* http/https URL and the fetch succeeded; an invalid URL returns
\* success=False without any fetch; a failed fetch returns success=False with
\* the fetch's attempts and time; when extract_content raises the result has
\* success=True, clean_content "", extraction_confidence 0.0 and the parser's
\* word_count and paragraph_count; otherwise the counts are the extractor's;
\* title, author, publish_date, extraction_method and confidence_score are
\* the parser's.
C19_ScrapeSuccess ==
    scraper.pc = "done" =>
       LET r == scraper.result[1]
       IN /\ r.success <=> (IsValidUrl(scraper.url) /\ FetchSucceeded)
          /\ ~IsValidUrl(scraper.url) => ~r.success /\ fetcher.pc = "idle"
          /\ (IsValidUrl(scraper.url) /\ ~FetchSucceeded) =>
                /\ ~r.success
                /\ fetcher.pc = "done"
                /\ r.fetch_attempts = fetcher.result[1].attempts
                /\ r.fetch_time_ms = fetcher.result[1].fetch_time_ms
          /\ r.success =>
                LET parsed == Parse(HtmlString(fetcher.result[1].content),
                                    fetcher.result[1].url.netloc)
                    extracted == scraper.extracted_content
                IN /\ r.title = parsed.title
                   /\ r.author = parsed.author
                   /\ r.publish_date = parsed.publish_date
                   /\ r.extraction_method = parsed.extraction_method
                   /\ r.confidence_score = parsed.confidence_score
                   /\ extracted = <<>> =>
                         /\ r.clean_content = <<>>
                         /\ r.extraction_confidence = 0
                         /\ r.word_count = parsed.word_count
                         /\ r.paragraph_count = parsed.paragraph_count
                   /\ extracted # <<>> =>
                         /\ r.word_count = extracted[1].word_count
                         /\ r.paragraph_count = extracted[1].paragraph_count

\* the Guardian page was fetched and parsed (60 words in 5 paragraphs),
\* extract_content raised, and the result is a success with the parser's
\* counts
C19_Witness ==
    /\ scraper.pc = "done"
    /\ scraper.extracted_content = <<>>
    /\ scraper.result[1].success
    /\ scraper.result[1].word_count = 60
    /\ scraper.result[1].paragraph_count = 5
    /\ scraper.result[1].clean_content = <<>>

\* ---------------------------------------------------------------------------
\* the readability scan

\* the readability step of the call has scanned the tree (the tree is not
\* changed by it or after it)
Scanned ==
    \/ pc = "generic"
    \/ Returned /\ result.extraction_method \in {"readability", "generic_fallback"}

\* the elements _find_best_content_element scores
ScoredElements ==
    FindAll(soup, detached, "article") \o FindAll(soup, detached, "main")
    \o FindAll(soup, detached, "section") \o FindAll(soup, detached, "div")

\* the score with the word bonus at 200, 100 and 50 words
ScoreAsStated(tree, det, e) ==
    LET Total(matched, word_count, paragraphs, links) ==
            IF matched + (IF word_count > 200 THEN 20
                          ELSE IF word_count > 100 THEN 10
                          ELSE IF word_count > 50 THEN 5 ELSE 0)
                       + (IF paragraphs > 3 THEN 15
                          ELSE IF paragraphs > 1 THEN 5 ELSE 0)
                       - (IF links > 10 THEN 10 ELSE 0) > 0
            THEN matched + (IF word_count > 200 THEN 20
                            ELSE IF word_count > 100 THEN 10
                            ELSE IF word_count > 50 THEN 5 ELSE 0)
                         + (IF paragraphs > 3 THEN 15
                            ELSE IF paragraphs > 1 THEN 5 ELSE 0)
                         - (IF links > 10 THEN 10 ELSE 0)
            ELSE 0
    IN Total(10 * MatchCount(CONTENT_PATTERNS, TextToCheck(tree[e]))
             - 5 * MatchCount(BOILERPLATE_PATTERNS, TextToCheck(tree[e])),
             StrippedWordCount(tree, det, e),
             Len(FindAllIn(tree, det, e, "p")),
             Len(FindAllIn(tree, det, e, "a")))

\* C22: the readability score of every candidate container is
\* max(0, 10 x content patterns matched - 5 x boilerplate patterns matched
\* + word bonus + paragraph bonus - link penalty), the word bonus being 20
\* above 200 words, 10 above 100 and 5 above 50, the paragraph bonus 15 above
\* 3 p descendants and 5 above 1, the link penalty 10 above 10 links.
C22_ScoreAsStated ==
    Scanned =>
        \A k \in 1..Len(ScoredElements) :
            ScoreContentElement(soup, detached, ScoredElements[k])
                = ScoreAsStated(soup, detached, ScoredElements[k])


\* ------------------------------------------------ lambda_handler (handler.py)
\* handler.py:330-337: the feature flags of a request
Features ==
    {"llm_normalization", "sentiment", "pii", "topics", "summary",
     "external_api"}

\* handler.py:516-522: the features the enricher is asked for
EnrichmentFeatures == {"sentiment", "pii", "topics", "summary"}

\* the requests: a body that parses or not, a url that is present and
\* non-blank or not, and the enabled feature flags
Events == [body_ok : BOOLEAN, url_ok : BOOLEAN, flags : SUBSET Features]

\* handler.py:796-821: create_api_response, with the body's success and
\* error type
ApiResponse(h, status_code, success, error_type) ==
    [h EXCEPT !.pc = "done", !.statusCode = status_code,
              !.success = success, !.error_type = error_type]

\* handler.py:248-313: parse_api_gateway_event, and the HandlerError clause
\* of lambda_handler (handler.py:219-231) for the requests it rejects
ParseApiGatewayEvent(ev) ==
    LET h == [pc |-> "load_configuration", flags |-> ev.flags,
              ran |-> <<>>, failed |-> {}, processing_errors |-> 0,
              partial_failures |-> FALSE, scraped |-> "none",
              statusCode |-> 0, success |-> FALSE, error_type |-> ""]
    IN IF ev.body_ok /\ ev.url_ok THEN h
       ELSE ApiResponse(h, 400, FALSE, "VALIDATION_ERROR")

\* handler.py:513: the enrichment step runs
EnrichmentEnabled(h) == h.flags \cap EnrichmentFeatures # {}

\* handler.py:159-201: lambda_handler after a pipeline that returned
\* success: the external API post when enabled, else the response
AfterPipeline(h, partial) ==
    IF "external_api" \in h.flags
    THEN [h EXCEPT !.pc = "external_api_post", !.partial_failures = partial]
    ELSE ApiResponse([h EXCEPT !.partial_failures = partial],
                     IF partial THEN 206 ELSE 200, TRUE, "")

\* handler.py:476, 513, 576: the step that follows step `after` of
\* execute_processing_pipeline
PipelineStep(h, after) ==
    IF after = "scrape_article" /\ "llm_normalization" \in h.flags
    THEN "llm_normalization"
    ELSE IF after \in {"scrape_article", "llm_normalization"}
            /\ EnrichmentEnabled(h)
    THEN "nlp_enrichment"
    ELSE "format_response"

\* a step of the pipeline ran; it failed or not
Ran(h, step, fails) ==
    [h EXCEPT !.ran = Append(@, step),
              !.failed = IF fails THEN @ \cup {step} ELSE @,
              !.processing_errors = IF fails THEN @ + 1 ELSE @]

\* lambda_handler(event, context) is called (handler.py:35-82)
HandlerCall ==
    /\ handler.pc = "idle"
    /\ \E ev \in Events : handler' = ParseApiGatewayEvent(ev)
    /\ UNCHANGED <<evars, pvars, probe, fetcher, scraper>>

\* handler.py:86-96: get_system_config, a failure becoming the 500 of
\* CONFIGURATION_ERROR
LoadConfiguration ==
    /\ handler.pc = "load_configuration"
    /\ \E ok \in BOOLEAN :
          handler' = IF ok THEN [handler EXCEPT !.pc = "initialize_components"]
                     ELSE ApiResponse(handler, 500, FALSE, "CONFIGURATION_ERROR")
    /\ UNCHANGED <<evars, pvars, probe, fetcher, scraper>>

\* handler.py:99-135: the components, a failure becoming the 500 of
\* INITIALIZATION_ERROR
InitializeComponents ==
    /\ handler.pc = "initialize_components"
    /\ \E ok \in BOOLEAN :
          handler' = IF ok THEN [handler EXCEPT !.pc = "scrape_article"]
                     ELSE ApiResponse(handler, 500, FALSE, "INITIALIZATION_ERROR")
    /\ UNCHANGED <<evars, pvars, probe, fetcher, scraper>>

\* handler.py:433-473 and 653-673: scrape_article returns a content that
\* succeeded or not, or raises
ScrapeArticle ==
    /\ handler.pc = "scrape_article"
    /\ \E o \in {"success", "failure", "raises"} :
          LET h == [Ran(handler, "scrape_article", o # "success")
                        EXCEPT !.scraped = o, !.processing_errors = 0]
          IN handler' =
                CASE o = "failure" -> ApiResponse(h, 400, FALSE, "SCRAPING_ERROR")
                  [] o = "raises" -> ApiResponse(h, 500, FALSE, "PROCESSING_ERROR")
                  [] OTHER -> [h EXCEPT !.pc = PipelineStep(h, "scrape_article")]
    /\ UNCHANGED <<evars, pvars, probe, fetcher, scraper>>

\* handler.py:476-510: the LLM normalization, whose exception is recorded
LlmNormalization ==
    /\ handler.pc = "llm_normalization"
    /\ \E ok \in BOOLEAN :
          LET h == Ran(handler, "llm_normalization", ~ok)
          IN handler' = [h EXCEPT !.pc = PipelineStep(h, "llm_normalization")]
    /\ UNCHANGED <<evars, pvars, probe, fetcher, scraper>>

\* handler.py:513-573: the enrichment, which processes some of the requested
\* features or raises
NlpEnrichment ==
    /\ handler.pc = "nlp_enrichment"
    /\ \E raises \in BOOLEAN,
          features_processed \in SUBSET (handler.flags \cap EnrichmentFeatures) :
          LET failed_features ==
                  (handler.flags \cap EnrichmentFeatures) \ features_processed
              h == Ran(handler, "nlp_enrichment",
                       raises \/ failed_features # {})
          IN handler' = [h EXCEPT !.pc = "format_response"]
    /\ UNCHANGED <<evars, pvars, probe, fetcher, scraper>>

\* handler.py:576-651: the formatting, whose exception leaves the minimal
\* response, and the return to lambda_handler
FormatResponse ==
    /\ handler.pc = "format_response"
    /\ \E ok \in BOOLEAN :
          LET h == Ran(handler, "format_response", ~ok)
          IN handler' = AfterPipeline(h, IF ok THEN h.processing_errors > 0
                                         ELSE TRUE)
    /\ UNCHANGED <<evars, pvars, probe, fetcher, scraper>>

\* handler.py:171-201: the external API post, whose exception is added to
\* the body, and the response
ExternalApiPost ==
    /\ handler.pc = "external_api_post"
    /\ \E ok \in BOOLEAN :
          LET h == [handler EXCEPT
                       !.ran = Append(@, "external_api_post"),
                       !.failed = IF ok THEN @ ELSE @ \cup {"external_api_post"}]
          IN handler' = ApiResponse(h, IF h.partial_failures THEN 206 ELSE 200,
                                    TRUE, "")
    /\ UNCHANGED <<evars, pvars, probe, fetcher, scraper>>

NextHandler ==
    \/ HandlerCall
    \/ LoadConfiguration
    \/ InitializeComponents
    \/ ScrapeArticle
    \/ LlmNormalization
    \/ NlpEnrichment
    \/ FormatResponse
    \/ ExternalApiPost

SpecHandler == Init /\ [][NextHandler]_vars

\* the invocation has returned its response
Responded == handler.pc = "done"

\* the steps that follow the scrape
LaterSteps ==
    {"llm_normalization", "nlp_enrichment", "format_response",
     "external_api_post"}

\* C21: lambda_handler never raises; when scraping fails it returns 400 with
\* SCRAPING_ERROR and no later step has run; after a successful scrape it
\* returns 206 with success true when an enabled step failed (normalization,
\* an enrichment feature, formatting or the external API post), and 200 only
\* when no enabled step failed
C21_StatusMapping ==
    /\ Responded => handler.statusCode \in {200, 206, 400, 500}
    /\ Responded /\ handler.scraped = "failure" =>
          /\ handler.statusCode = 400
          /\ handler.error_type = "SCRAPING_ERROR"
          /\ handler.ran = <<"scrape_article">>
    /\ Responded /\ handler.scraped = "success"
          /\ handler.failed \cap LaterSteps # {} =>
          handler.statusCode = 206 /\ handler.success
    /\ Responded /\ handler.statusCode = 200 => handler.failed = {}


\* the score of the k-th element of the readability scan
ScanScore(k) == ScoreContentElement(soup, detached, ScoredElements[k])

\* the position in the scan of the element the readability step chose
\* (0 when it chose none)
ChosenAt ==
    LET best_element == FindBestContentElement(soup, detached)
    IN IF best_element = 0 THEN 0
       ELSE CHOOSE k \in 1..Len(ScoredElements) :
                ScoredElements[k] = best_element

\* C23: _find_best_content_element returns an element of positive score that
\* no article, main, section or div of the tree exceeds, the first such in the
\* order of the scan (the articles, then the mains, the sections, the divs,
\* each in document order), and None when no element scores above 0
C23_BestElement ==
    Scanned =>
        LET best_element == FindBestContentElement(soup, detached)
        IN IF \A k \in 1..Len(ScoredElements) : ScanScore(k) <= 0
           THEN best_element = 0
           ELSE /\ \E k \in 1..Len(ScoredElements) :
                      ScoredElements[k] = best_element
                /\ ScanScore(ChosenAt) > 0
                /\ \A k \in 1..Len(ScoredElements) :
                      ScanScore(k) <= ScanScore(ChosenAt)
                /\ \A k \in 1..(ChosenAt - 1) :
                      ScanScore(k) < ScanScore(ChosenAt)

\* a scan in which a later element ties with the chosen one, which is a
\* div that stands before the article in the document
C23_Witness ==
    /\ Returned
    /\ result.extraction_method = "readability"
    /\ ChosenAt # 0
    /\ \E k \in (ChosenAt + 1)..Len(ScoredElements) :
          /\ ScanScore(k) = ScanScore(ChosenAt)
          /\ ScoredElements[k] < ScoredElements[ChosenAt]

\* a scan in which no element scores above 0
C23_WitnessNone ==
    /\ Scanned
    /\ Len(ScoredElements) > 0
    /\ FindBestContentElement(soup, detached) = 0


\* ------------------------------------------------ _is_good_content alone
MaxGateWords == 51

\* a text of n words: s of them "word.", then a of one letter, then l of
\* eighteen, the rest the word `base`
GateText(n, s, a, l, base) ==
    [j \in 1..n |->
       IF j <= s THEN "word."
       ELSE IF j <= s + a THEN "a"
       ELSE IF j <= s + a + l THEN "pneumonoultramicro"
       ELSE base]

GateTexts ==
    {GateText(n, s, a, l, base) :
        n \in {0} \cup 49..MaxGateWords, s \in 0..3, a \in {0, 1, 2, 16, 17},
        l \in {0, 39, 40, 41}, base \in {"word", "now"}}
    \cup {<<PARA>>, <<NL, "word.">>}

\* _is_good_content(content) is called
GateContent ==
    /\ Idle
    /\ \E content \in GateTexts :
          probe' = [op |-> "is_good_content", content |-> content,
                    good |-> IsGoodContent(content)]
    /\ UNCHANGED <<evars, pvars, svars>>

NextGate == GateContent

SpecGate == Init /\ [][NextGate]_vars

\* C24: _is_good_content(c) is true exactly when c has at least 50
\* whitespace-separated words, splits on the runs of . ! ? into at least 3
\* segments and has a mean word length within [3, 15]; it is false for the
\* empty string
C24_QualityGate ==
    probe.op = "is_good_content" =>
        /\ probe.good <=>
              /\ Len(Words(probe.content)) >= 50
              /\ SentenceSegments(probe.content) >= 3
              /\ 3 * Len(Words(probe.content))
                    <= TotalWordLength(Words(probe.content))
              /\ TotalWordLength(Words(probe.content))
                    <= 15 * Len(Words(probe.content))
        /\ probe.content = <<>> => ~probe.good

\* an accepted text at all three limits at once: 50 words, 3 segments, a
\* mean word length of 3
C24_Witness ==
    /\ probe.op = "is_good_content"
    /\ probe.good
    /\ Len(Words(probe.content)) = 50
    /\ SentenceSegments(probe.content) = 3
    /\ TotalWordLength(Words(probe.content)) = 150

\* a refused text of 50 words and 3 segments whose mean word length is
\* above 15
C24_WitnessLong ==
    /\ probe.op = "is_good_content"
    /\ ~probe.good
    /\ Len(Words(probe.content)) = 50
    /\ SentenceSegments(probe.content) = 3
    /\ TotalWordLength(Words(probe.content)) > 750


\* the blank-line separators of a text
ParagraphBreaks(content) ==
    Cardinality({k \in 1..Len(content) : content[k] = PARA})

\* the confidence as stated, in tenths: the base of the method, the word
\* adjustment, the sentence bonus and a paragraph bonus for more than 2
\* paragraph breaks, clamped to [0, 1]
ConfidenceAsStated(content, method) ==
    LET Clamped(score) ==
            IF score < 0 THEN 0 ELSE IF score > 10 THEN 10 ELSE score
        Total(word_count) ==
            Clamped((CASE method = "site_specific" -> 8
                       [] method = "readability" -> 6
                       [] method = "generic_fallback" -> 4
                       [] OTHER -> 0)
                    + (IF word_count > 200 THEN 2
                       ELSE IF word_count > 100 THEN 1
                       ELSE IF word_count < 50 THEN -2 ELSE 0)
                    + (IF SentenceSegments(content) > 5 THEN 1 ELSE 0)
                    + (IF ParagraphBreaks(content) > 2 THEN 1 ELSE 0))
    IN Total(Len(Words(content)))

\* C25: for non-empty content the confidence is the clamped sum of the base
\* of the method (0.8, 0.6, 0.4, 0.0 for site_specific, readability,
\* generic_fallback, error), the word adjustment (+0.2 above 200 words, +0.1
\* above 100, -0.2 below 50), +0.1 for more than 5 sentence segments and +0.1
\* only for more than 2 paragraph breaks
C25_ConfidenceComposition ==
    probe.op = "confidence" /\ probe.content # <<>> =>
        /\ probe.site_specific
              = ConfidenceAsStated(probe.content, "site_specific")
        /\ probe.readability
              = ConfidenceAsStated(probe.content, "readability")
        /\ probe.generic_fallback
              = ConfidenceAsStated(probe.content, "generic_fallback")
        /\ CalculateConfidenceScore(probe.content, "error")
              = ConfidenceAsStated(probe.content, "error")


\* ------------------------------------------- one element failing (C26)
\* the elements _find_best_content_element scores, in the order of the scan
ScanOrder(tree, det) ==
    FindAll(tree, det, "article") \o FindAll(tree, det, "main")
    \o FindAll(tree, det, "section") \o FindAll(tree, det, "div")

\* extractor.py:459-476 when _score_content_element raises for the elements
\* of `bad`: the loop has no try, so the first of them reached ends the
\* function with the exception
FindBestContentElementFailing(tree, det, bad) ==
    IF \E k \in 1..Len(ScanOrder(tree, det)) : ScanOrder(tree, det)[k] \in bad
    THEN [raised |-> TRUE, element |-> 0]
    ELSE [raised |-> FALSE, element |-> FindBestContentElement(tree, det)]

\* extractor.py:444-457 on top of it: the except clause returns "" and no
\* element is chosen
ExtractWithReadabilityFailing(tree, det, bad) ==
    LET Result(best) ==
            IF best.raised \/ best.element = 0
            THEN [element |-> 0, content |-> <<>>]
            ELSE [element |-> best.element,
                  content |-> ExtractTextFromElement(tree, det, best.element)]
    IN Result(FindBestContentElementFailing(tree, det, bad))

\* the trees of the documents
DocumentTrees == {BuildTree(doc) : doc \in Documents(MaxBoilerplate)}

\* the elements of a tree
Elements(tree) == {n \in 1..Len(tree) : tree[n].kind = "tag"}

\* _remove_boilerplate_elements(soup) with one element whose extract()
\* raises, beside the same pass without the failure
BoilerplatePassAlone ==
    /\ Idle
    /\ \E tree \in DocumentTrees :
       \E f \in Elements(tree),
          order \in Perms(PresentBoilerplateTags(tree, {})) :
          probe' = [op |-> "boilerplate_pass", tree |-> tree, failing |-> f,
                    passed |-> RemoveBoilerplateElements(
                                   tree, [det |-> {}, log |-> <<>>], order, {f}),
                    unfailing |-> RemoveBoilerplateElements(
                                   tree, [det |-> {}, log |-> <<>>], order, {}),
                    handled |-> StepHandler("boilerplate")]
    /\ UNCHANGED <<evars, pvars, svars>>

\* _extract_with_readability(soup) with one element whose scoring raises
ReadabilityScanAlone ==
    /\ Idle
    /\ \E tree \in DocumentTrees :
       \E f \in Elements(tree) :
          probe' = [op |-> "readability_scan", tree |-> tree, failing |-> f,
                    chosen |-> ExtractWithReadabilityFailing(tree, {}, {f}),
                    handled |-> StepHandler("readability")]
    /\ UNCHANGED <<evars, pvars, svars>>

NextElement == BoilerplatePassAlone \/ ReadabilityScanAlone

SpecElement == Init /\ [][NextElement]_vars

\* the scan of the probed tree without the failing element
OtherElements ==
    SelectSeq(ScanOrder(probe.tree, {}), LAMBDA e : e # probe.failing)

\* the score of the k-th of them
OtherScore(k) == ScoreContentElement(probe.tree, {}, OtherElements[k])


\* C26: when the processing of one element fails (its removal in the
\* boilerplate pass, its scoring in the readability scan), only that element
\* is affected: it is left in place or skipped as a candidate, every other
\* element is removed or scored as if the failure had not happened, and the
\* call continues
C26_ElementFailOpen ==
    /\ probe.op = "boilerplate_pass" =>
          /\ probe.failing \notin probe.passed.det
          /\ probe.passed.det = probe.unfailing.det \ {probe.failing}
          /\ Len(probe.passed.log) = Cardinality(probe.passed.det)
          /\ probe.handled = "inner"
    /\ probe.op = "readability_scan" =>
          /\ probe.handled = "inner"
          /\ IF \A k \in 1..Len(OtherElements) : OtherScore(k) <= 0
             THEN probe.chosen.element = 0
             ELSE \E k \in 1..Len(OtherElements) :
                    /\ OtherElements[k] = probe.chosen.element
                    /\ OtherScore(k) > 0
                    /\ \A j \in 1..Len(OtherElements) :
                          OtherScore(j) <= OtherScore(k)
                    /\ \A j \in 1..(k - 1) : OtherScore(j) < OtherScore(k)


\* the log before a step is the beginning of the log after it
LogGrows ==
    /\ Len(removed_elements) <= Len(removed_elements')
    /\ SubSeq(removed_elements', 1, Len(removed_elements)) = removed_elements

\* the call has logged one entry for each node it took out of the tree
OneEntryPerRemoval ==
    pc # "idle" => Len(removed_elements) - call_start = Cardinality(detached)

\* every entry of a returned log is tag:<name> or pattern:<name>
TagOrPatternEntries ==
    Returned =>
        \A k \in 1..Len(result.removed_elements) :
            result.removed_elements[k][1] \in {"tag", "pattern"}

\* C27: within one call the removal log only grows, entries being appended
\* and never changed or dropped; it gets exactly one entry for each element
\* removed from the tree; and every entry of a result's removed_elements has
\* the form tag:<name> or pattern:<name>
C27_RemovalLog ==
    /\ [][LogGrows]_vars
    /\ [](OneEntryPerRemoval /\ TagOrPatternEntries)

\* the first two parts alone
LogAppendOnly == [][LogGrows]_vars /\ []OneEntryPerRemoval


\* ----------------------------------------------------- _extract_date alone
\* the most date elements of a page
MaxDateElements == 3

DateBlocks ==
    {"time_datetime", "time_today", "time_text", "time_bad_attr", "time_empty"}

\* the pages of up to MaxDateElements date elements
DatePages ==
    UNION {[1..k -> DateBlocks] : k \in 0..MaxDateElements}

\* _extract_date(selector) on the tree of a page, with the 'time' selector
\* or none
ExtractDateAlone ==
    /\ Idle
    /\ \E page \in DatePages, selector \in {<<>>, <<One(T("time"))>>} :
          probe' = [op |-> "extract_date", tree |-> WrappedTree(page),
                    selector |-> selector,
                    date |-> ExtractDate(WrappedTree(page), selector)]
    /\ UNCHANGED <<evars, pvars, svars>>

NextDate == ExtractDateAlone

SpecDate == Init /\ [][NextDate]_vars

\* the date of the first of the elements whose datetime attribute or, failing
\* that, whose text parses
RECURSIVE FirstParseableDate(_, _)
FirstParseableDate(tree, elements) ==
    IF elements = <<>> THEN <<>>
    ELSE LET Decide(from_attr, from_text) ==
                 IF from_attr # <<>> THEN from_attr
                 ELSE IF from_text # <<>> THEN from_text
                 ELSE FirstParseableDate(tree, Tail(elements))
         IN Decide(IF Truthy(tree[Head(elements)].datetime)
                   THEN ParseDatetime(tree[Head(elements)].datetime[1])
                   ELSE <<>>,
                   ParseDatetime(ParserCleanText(GetText(tree, Head(elements)))))

\* C28: for a date selector matching several elements, _extract_date returns
\* the date of the first element, in document order, whose datetime
\* attribute or (failing that) whose text parses against the format list; an
\* element whose attribute or text does not parse is passed over
C28_FirstParseableDate ==
    probe.op = "extract_date" /\ probe.selector # <<>> =>
        probe.date = FirstParseableDate(probe.tree,
                                        Select(probe.tree, {}, probe.selector))


\* C29: every result extract_content returns with a confidence below 0.3 has
\* non-empty error_details (an error type or a warning), and every result of
\* method site_specific or readability has a confidence of at least 0.6, so
\* that only generic_fallback, empty_input and error results fall below 0.3
C29_DegradedIsFlagged ==
    Returned =>
        /\ result.confidence_score < 3 =>
              /\ result.error_type # "" \/ result.warning # ""
              /\ result.extraction_method
                    \in {"generic_fallback", "empty_input", "error"}
        /\ result.extraction_method \in {"site_specific", "readability"} =>
              result.confidence_score >= 6

\* a generic result of fewer than 50 words, scored 0.2 and flagged
C29_Witness ==
    /\ Returned
    /\ result.extraction_method = "generic_fallback"
    /\ result.clean_text # <<>>
    /\ result.confidence_score = 2
    /\ result.warning # ""


\* the element texts the site-specific step joined
SiteParts ==
    IF site_selectors.content_selector # <<>>
    THEN TextsOf(soup, detached,
                 Select(soup, detached, site_selectors.content_selector))
    ELSE <<>>

\* the element texts the generic step joined: the paragraphs of more than 10
\* words, else the first div, section or article of more than 20
GenericParts ==
    LET Chosen(paras, divs, sections, articles) ==
            IF paras # <<>> THEN paras
            ELSE IF divs # <<>> THEN divs
            ELSE IF sections # <<>> THEN sections
            ELSE articles
    IN Chosen(SelectSeq(TextsOf(soup, detached, FindAll(soup, detached, "p")),
                        LAMBDA text : Len(Words(text)) > 10),
              FirstLongText(soup, detached, FindAll(soup, detached, "div")),
              FirstLongText(soup, detached, FindAll(soup, detached, "section")),
              FirstLongText(soup, detached, FindAll(soup, detached, "article")))

\* the texts of a list that are not empty
NonEmptyTexts(texts) == SelectSeq(texts, LAMBDA text : text # <<>>)

C30_WitnessSite ==
    /\ Returned
    /\ result.extraction_method = "site_specific"
    /\ result.paragraph_count = 5

\* a generic result of several joined paragraphs
C30_WitnessGeneric ==
    /\ Returned
    /\ result.extraction_method = "generic_fallback"
    /\ result.paragraph_count > 1

=============================================================================
